---- MODULE Spec2Model ----
(***************************************************************************)
(* Dallas City Council pipeline: the extractor's cross-source correlation  *)
(* (Dallas-TX/extract_dallas.py) and the site builder's classification and *)
(* aggregation layer (build_site.py).                                      *)
(*                                                                         *)
(* Python strings are sequences of one-character strings, so that trimming,*)
(* substring tests, case folding, digit parsing and lexicographic order    *)
(* are computed the way the code computes them.  The empty Python string   *)
(* '' is the empty sequence << >>.                                         *)
(***************************************************************************)
EXTENDS Integers, Sequences, FiniteSets, TLC

VARIABLES
    pc,                 \* position of the operation under study
    raw, cleaned,       \* normalize_agenda_number: argument and result
    legistar_in,        \* phase3_correlate: the source-A items as passed in
    legistar_items,     \* phase3_correlate: source-A items (list of dicts,
                        \* the dicts are updated in place by the merge)
    socrata_records,    \* phase3_correlate: source-B vote records
    all_items,          \* phase3_correlate: the returned list
    raw_vote, mapped,   \* map_vote: argument and result
    passed_val, final_action, matter_status,    \* derive_outcome: arguments
    outcome,            \* derive_outcome: result
    rows, cursor,       \* _load_all_csv_data: the CSV rows and the next row
    meetings_by_key,    \* _load_all_csv_data: (event_id, date) -> meeting
    seen_items,         \* _load_all_csv_data: item keys already loaded
    builder_votes,      \* self.votes of the site builder
    builder_all_items,  \* self.all_items of the site builder
    vote_id_counter,    \* self.vote_id_counter
    meeting_id_counter, \* self.meeting_id_counter
    meetings,           \* self.meetings
    member_data,        \* self.members: the member dicts in insertion order
    current_members,    \* self._current_members
    member_id_map,      \* self.member_id_map
    stats_name, stats,  \* _compute_member_stats: argument and result
    dissent_denom,      \* _compute_member_stats: the local dissent_denom
    alignment,          \* the data _generate_alignment_json writes
    call_args, call_result, \* a classifier under study: arguments, result
    run_no,             \* a repeated run: which run of the stages this is
    first_run           \* a repeated run: what the first run produced

normalize_vars == <<raw, cleaned>>

correlate_vars == <<legistar_in, legistar_items, socrata_records, all_items>>

vote_vars == <<raw_vote, mapped>>

outcome_vars == <<passed_val, final_action, matter_status, outcome>>

load_vars ==
    <<rows, cursor, meetings_by_key, seen_items, builder_votes,
      builder_all_items,
      vote_id_counter, meeting_id_counter, meetings>>

aggregate_vars ==
    <<member_data, current_members, member_id_map, stats_name, stats,
      dissent_denom, alignment>>

call_vars == <<call_args, call_result>>

rerun_vars == <<run_no, first_run>>

vars ==
    <<pc, normalize_vars, correlate_vars, vote_vars, outcome_vars, load_vars,
      aggregate_vars, call_vars, rerun_vars>>

\* the variables of the operations a specification does not run stay idle
NormalizeIdle == raw = <<>> /\ cleaned = <<>>

CorrelateIdle ==
    /\ legistar_in = <<>>
    /\ legistar_items = <<>>
    /\ socrata_records = <<>>
    /\ all_items = <<>>

VoteIdle == raw_vote = <<>> /\ mapped = "None"

OutcomeIdle ==
    /\ passed_val = <<>>
    /\ final_action = <<>>
    /\ matter_status = <<>>
    /\ outcome = "None"

\* DallasSiteBuilder.__init__, before any row is read
LoadIdle ==
    /\ rows = <<>>
    /\ cursor = 1
    /\ meetings_by_key = <<>>
    /\ seen_items = {}
    /\ builder_votes = <<>>
    /\ builder_all_items = <<>>
    /\ vote_id_counter = 0
    /\ meeting_id_counter = 0
    /\ meetings = <<>>

\* DallasSiteBuilder.__init__, before the roster is read
AggregateIdle ==
    /\ member_data = <<>>
    /\ current_members = {}
    /\ member_id_map = <<>>
    /\ stats_name = <<>>
    /\ stats = <<>>
    /\ dissent_denom = 0
    /\ alignment = <<>>

CallIdle == call_args = <<>> /\ call_result = <<>>

RerunIdle == run_no = 1 /\ first_run = <<>>

(***************************************************************************)
(* Python str primitives                                                   *)
(***************************************************************************)

\* Characters in code-point order; str comparison is by code point.
Alphabet ==
    <<"\t", "\n", " ", "-", ".", "/", "0", "1", "2", "3", "4", "5", "6", "7",
      "8", "9", ":", "A", "B", "C", "D", "E", "F", "G", "H", "I", "J", "K",
      "L", "M", "N", "O", "P", "Q", "R", "S", "T", "U", "V", "W", "X", "Y",
      "Z", "_", "a", "b", "c", "d", "e", "f", "g", "h", "i", "j", "k", "l",
      "m", "n", "o", "p", "q", "r", "s", "t", "u", "v", "w", "x", "y", "z">>

OrdOf ==
    [c \in {Alphabet[i] : i \in 1..Len(Alphabet)} |->
        CHOOSE i \in 1..Len(Alphabet) : Alphabet[i] = c]

Ord(c) == OrdOf[c]

Whitespace == {" ", "\t", "\n"}

Digits == <<"0", "1", "2", "3", "4", "5", "6", "7", "8", "9">>

DigitSet == {Digits[i] : i \in 1..Len(Digits)}

LowerCase ==
    <<"a", "b", "c", "d", "e", "f", "g", "h", "i", "j", "k", "l", "m",
      "n", "o", "p", "q", "r", "s", "t", "u", "v", "w", "x", "y", "z">>

UpperCase ==
    <<"A", "B", "C", "D", "E", "F", "G", "H", "I", "J", "K", "L", "M",
      "N", "O", "P", "Q", "R", "S", "T", "U", "V", "W", "X", "Y", "Z">>

\* s < t for Python strings (lexicographic, a proper prefix is smaller)
RECURSIVE StrLess(_, _)
StrLess(s, t) ==
    IF t = <<>> THEN FALSE
    ELSE IF s = <<>> THEN TRUE
    ELSE IF Head(s) = Head(t) THEN StrLess(Tail(s), Tail(t))
    ELSE Ord(Head(s)) < Ord(Head(t))

\* s.lstrip()
RECURSIVE lstrip(_)
lstrip(s) ==
    IF s # <<>> /\ Head(s) \in Whitespace THEN lstrip(Tail(s)) ELSE s

\* s.rstrip()
RECURSIVE rstrip(_)
rstrip(s) ==
    IF s # <<>> /\ s[Len(s)] \in Whitespace
    THEN rstrip(SubSeq(s, 1, Len(s) - 1))
    ELSE s

\* s.strip()
strip(s) == rstrip(lstrip(s))

\* s.rstrip('.'): every trailing period is removed
RECURSIVE rstrip_dot(_)
rstrip_dot(s) ==
    IF s # <<>> /\ s[Len(s)] = "."
    THEN rstrip_dot(SubSeq(s, 1, Len(s) - 1))
    ELSE s

\* s.isdigit(): non-empty and all decimal digits
isdigit(s) == s # <<>> /\ \A i \in 1..Len(s) : s[i] \in DigitSet

DigitValue(c) == (CHOOSE i \in 1..Len(Digits) : Digits[i] = c) - 1

\* int(s) for a digit string
RECURSIVE int(_)
int(s) ==
    IF s = <<>> THEN 0
    ELSE 10 * int(SubSeq(s, 1, Len(s) - 1)) + DigitValue(s[Len(s)])

\* str(n) for n >= 0
RECURSIVE str(_)
str(n) ==
    IF n < 10 THEN <<Digits[n + 1]>>
    ELSE Append(str(n \div 10), Digits[(n % 10) + 1])

\* s.upper()
upper(s) ==
    [i \in 1..Len(s) |->
        IF \E k \in 1..Len(LowerCase) : LowerCase[k] = s[i]
        THEN UpperCase[CHOOSE k \in 1..Len(LowerCase) : LowerCase[k] = s[i]]
        ELSE s[i]]

\* s.lower()
lower(s) ==
    [i \in 1..Len(s) |->
        IF \E k \in 1..Len(UpperCase) : UpperCase[k] = s[i]
        THEN LowerCase[CHOOSE k \in 1..Len(UpperCase) : UpperCase[k] = s[i]]
        ELSE s[i]]

\* kw in s
Contains(s, kw) ==
    \E i \in 0..(Len(s) - Len(kw)) : SubSeq(s, i + 1, i + Len(kw)) = kw

\* s[:n]
Prefix(s, n) == SubSeq(s, 1, IF Len(s) < n THEN Len(s) ELSE n)

(***************************************************************************)
(* extract_dallas.py: normalize_agenda_number                              *)
(***************************************************************************)

\* a slip that strips the period before the whitespace
normalize_agenda_number_period_first(r) ==
    IF r = <<>> THEN <<>>
    ELSE LET c == strip(rstrip_dot(r))
         IN  IF isdigit(c) THEN str(int(c)) ELSE c

normalize_agenda_number(r) ==
    IF r = <<>> THEN <<>>
    ELSE LET c == rstrip_dot(strip(r))
         IN  IF isdigit(c) THEN str(int(c)) ELSE c

(***************************************************************************)
(* normalize_agenda_number applied to one raw agenda number                *)
(***************************************************************************)

MaxZeros == 2       \* leading zeros put in front of a number
MaxPad == 1         \* whitespace characters on either side

\* digit strings written plainly
PlainNumbers ==
    {<<"0">>, <<"7">>, <<"1", "0">>, <<"1", "2">>, <<"6", "2">>}

Zeros(k) == [i \in 1..k |-> "0"]

Pads == UNION {[1..n -> {" ", "\t"}] : n \in 0..MaxPad}

\* pre ++ 0^k ++ d ++ dot ++ post
Written(pre, k, d, dot, post) == pre \o Zeros(k) \o d \o dot \o post

\* other identifiers: letters, inner blanks, several periods, a period
\* followed by a blank
OtherNumbers ==
    {<<>>, <<".">>, <<" ">>, <<".", ".">>, <<"1", "2", ".", ".">>,
     <<"1", "2", " ", ".">>, <<"1", " ", "2">>, <<"A", "-", "3", ".">>,
     <<"0", "7", "a">>, <<"Z", "1", "2">>, <<"0", ".", "5">>}

RawNumbers ==
    {Written(pre, k, d, dot, post) :
        pre \in Pads, k \in 0..MaxZeros, d \in PlainNumbers,
        dot \in {<<>>, <<".">>}, post \in Pads}
    \cup OtherNumbers

InitNormalize ==
    /\ pc = "start"
    /\ raw \in RawNumbers
    /\ cleaned = <<>>
    /\ CorrelateIdle /\ VoteIdle /\ OutcomeIdle /\ LoadIdle
    /\ AggregateIdle /\ CallIdle /\ RerunIdle

Normalize ==
    /\ pc = "start"
    /\ cleaned' = normalize_agenda_number(raw)
    /\ pc' = "done"
    /\ UNCHANGED <<load_vars, aggregate_vars, call_vars, rerun_vars, raw, correlate_vars, vote_vars, outcome_vars>>

NextNormalize == Normalize

SpecNormalize == InitNormalize /\ [][NextNormalize]_vars

\* C5: a digit string written with leading zeros, one trailing period or
\* surrounding whitespace normalizes to the plain number ("62.", "62", "062"
\* all give "62"), and the empty input gives the empty string.
C5_VariantsCompareEqual ==
    pc = "done" =>
        /\ \A pre \in Pads, post \in Pads, k \in 0..MaxZeros,
              d \in PlainNumbers, dot \in {<<>>, <<".">>} :
              raw = Written(pre, k, d, dot, post) => cleaned = d
        /\ (raw = <<>> => cleaned = <<>>)

C5_Witness ==
    /\ pc = "done"
    /\ raw = <<" ", "0", "6", "2", ".", " ">>
    /\ cleaned = <<"6", "2">>

(***************************************************************************)
(* extract_dallas.py: derive_passed                                        *)
(***************************************************************************)

APPROVAL_KEYWORDS ==
    <<<<"A", "P", "P", "R", "O", "V", "E", "D">>,
      <<"A", "D", "O", "P", "T", "E", "D">>,
      <<"P", "A", "S", "S", "E", "D">>,
      <<"C", "O", "N", "F", "I", "R", "M", "E", "D">>,
      <<"A", "C", "C", "E", "P", "T", "E", "D">>,
      <<"G", "R", "A", "N", "T", "E", "D">>,
      <<"S", "U", "S", "T", "A", "I", "N", "E", "D">>,
      <<"R", "A", "T", "I", "F", "I", "E", "D">>>>

DENIAL_KEYWORDS ==
    <<<<"D", "E", "N", "I", "E", "D">>,
      <<"F", "A", "I", "L", "E", "D">>,
      <<"R", "E", "J", "E", "C", "T", "E", "D">>,
      <<"D", "E", "F", "E", "A", "T", "E", "D">>>>

AMENDED == <<"A", "M", "E", "N", "D", "E", "D">>

\* any(kw in s for kw in kws)
ContainsAny(s, kws) == \E i \in 1..Len(kws) : Contains(s, kws[i])

\* The Python results 1, 0 and None are written "1", "0" and "None".
derive_passed(fa) ==
    IF fa = <<>> THEN "None"
    ELSE LET up == upper(fa)
         IN  IF ContainsAny(up, APPROVAL_KEYWORDS) THEN "1"
             ELSE IF ContainsAny(up, DENIAL_KEYWORDS) THEN "0"
             ELSE IF Contains(up, AMENDED) THEN "1"
             ELSE "None"

(***************************************************************************)
(* extract_dallas.py: DallasExtractionWorkflow.phase3_correlate            *)
(*                                                                         *)
(* An item dict is a record of the fields the correlation reads or writes. *)
(* agenda_sequence and event_item_id are << >> for '' and <<n>> for the    *)
(* integer n.  item_votes is a function from voter names to vote codes.    *)
(***************************************************************************)

SOCRATA_ROLL_CALL ==
    <<"S", "o", "c", "r", "a", "t", "a", " ", "R", "o", "l", "l", " ",
      "C", "a", "l", "l">>

DATE_LEN == 10

EmptyDict == [n \in {} |-> <<>>]

\* d[k] = v
DictPut(d, k, v) == [n \in DOMAIN d \cup {k} |-> IF n = k THEN v ELSE d[n]]

\* a slip that keeps the first vote recorded for a name
RECURSIVE BuildVotesFirstWins(_, _)
BuildVotesFirstWins(records, votes) ==
    IF records = <<>> THEN votes
    ELSE LET r == Head(records)
         IN  BuildVotesFirstWins(Tail(records),
                        IF r.voter_name # <<>> /\ r.voter_name \notin DOMAIN votes
                        THEN DictPut(votes, r.voter_name, r.vote)
                        ELSE votes)

\* the per-member vote dict of _merge_socrata_into_item
RECURSIVE BuildVotes(_, _)
BuildVotes(records, votes) ==
    IF records = <<>> THEN votes
    ELSE LET r == Head(records)
         IN  BuildVotes(Tail(records),
                        IF r.voter_name # <<>>
                        THEN DictPut(votes, r.voter_name, r.vote)
                        ELSE votes)

VotesOf(records) == BuildVotes(records, EmptyDict)

_merge_socrata_into_item(item, records) ==
    IF records = <<>> THEN item
    ELSE LET sample == records[1]
         IN  [item EXCEPT
                !.socrata_item_number = sample.agenda_item_number,
                !.socrata_agenda_info = sample.item_type,
                !.socrata_final_action = sample.final_action_taken,
                !.passed = derive_passed(sample.final_action_taken),
                !.vote_type = SOCRATA_ROLL_CALL,
                !.title = IF item.title = <<>>
                          THEN sample.agenda_item_description
                          ELSE item.title,
                !.item_votes = VotesOf(records)]

\* key of a Socrata record: (date[:10], normalized agenda_item_number)
SocrataKey(r) ==
    <<Prefix(r.date, DATE_LEN), normalize_agenda_number(r.agenda_item_number)>>

\* key of a Legistar item: (event_date, normalized agenda_number)
LegistarKey(item) ==
    <<item.event_date, normalize_agenda_number(item.agenda_number)>>

\* socrata_by_key: its keys, and the list of records grouped under a key
SocrataKeys(S) == {SocrataKey(S[i]) : i \in 1..Len(S)}

SocrataGroup(S, key) == SelectSeq(S, LAMBDA r : SocrataKey(r) = key)

\* a slip that also indexes the items whose normalized number is empty
LegistarIndexedWithEmpty(L) == {LegistarKey(L[i]) : i \in 1..Len(L)}

\* legistar_by_key: an item with an empty normalized number is not indexed,
\* and a later item with the same key replaces an earlier one
LegistarIndexed(L) ==
    {LegistarKey(L[i]) : i \in {j \in 1..Len(L) : LegistarKey(L[j])[2] # <<>>}}

LegistarByKey(L, key) ==
    CHOOSE i \in 1..Len(L) :
        /\ LegistarKey(L[i]) = key
        /\ \A j \in 1..Len(L) : LegistarKey(L[j]) = key => j <= i

\* tuple order of the keys, as sorted() compares them
KeyLess(a, b) ==
    \/ StrLess(a[1], b[1])
    \/ a[1] = b[1] /\ StrLess(a[2], b[2])

\* sorted(keys)
RECURSIVE SortedKeys(_)
SortedKeys(keys) ==
    IF keys = {} THEN <<>>
    ELSE LET m == CHOOSE k \in keys : \A o \in keys \ {k} : KeyLess(k, o)
         IN  <<m>> \o SortedKeys(keys \ {m})

\* int(x.get('agenda_sequence', 0) or 0)
SequenceNumber(item) ==
    IF item.agenda_sequence = <<>> THEN 0 ELSE item.agenda_sequence[1]

\* the sort key of all_items.sort: (event_date, sequence number, agenda_number)
ItemLess(a, b) ==
    \/ StrLess(a.event_date, b.event_date)
    \/ /\ a.event_date = b.event_date
       /\ \/ SequenceNumber(a) < SequenceNumber(b)
          \/ /\ SequenceNumber(a) = SequenceNumber(b)
             /\ StrLess(a.agenda_number, b.agenda_number)

\* list.sort is stable: an item goes after every item not greater than it
RECURSIVE InsertItem(_, _)
InsertItem(sorted, x) ==
    IF sorted = <<>> THEN <<x>>
    ELSE IF ItemLess(x, Head(sorted)) THEN <<x>> \o sorted
    ELSE <<Head(sorted)>> \o InsertItem(Tail(sorted), x)

RECURSIVE SortItems(_)
SortItems(items) ==
    IF items = <<>> THEN <<>>
    ELSE InsertItem(SortItems(SubSeq(items, 1, Len(items) - 1)),
                    items[Len(items)])

\* the item synthesized for an unmatched Socrata group
NewItem(key, sample) ==
    [event_item_id |-> <<>>,
     event_date |-> key[1],
     agenda_number |-> sample.agenda_item_number,
     agenda_sequence |-> <<>>,
     title |-> sample.agenda_item_description,
     passed |-> "None",
     vote_type |-> <<>>,
     socrata_item_number |-> <<>>,
     socrata_agenda_info |-> <<>>,
     socrata_final_action |-> <<>>,
     item_votes |-> EmptyDict]

\* a slip that matches on the date alone: a group is merged into every
\* item of its date
MergedLegistarByDate(L, S) ==
    [i \in 1..Len(L) |->
        IF \E k \in SocrataKeys(S) : k[1] = L[i].event_date
        THEN _merge_socrata_into_item(L[i],
                 SocrataGroup(S, CHOOSE k \in SocrataKeys(S) :
                                     k[1] = L[i].event_date))
        ELSE L[i]]

\* legistar_items after the matching loop: the indexed item of every
\* Socrata key has the group merged into it
MergedLegistar(L, S) ==
    LET socrata_by_key == SocrataKeys(S)
        legistar_by_key == LegistarIndexed(L)
    IN  [i \in 1..Len(L) |->
            LET key == LegistarKey(L[i])
            IN  IF /\ key \in socrata_by_key
                   /\ key \in legistar_by_key
                   /\ LegistarByKey(L, key) = i
                THEN _merge_socrata_into_item(L[i], SocrataGroup(S, key))
                ELSE L[i]]

\* a slip that skips the groups of records without a date
unmatched_socrata_keys_dated(L, S) ==
    {key \in SocrataKeys(S) \ LegistarIndexed(L) : key[1] # <<>>}

unmatched_socrata_keys(L, S) == SocrataKeys(S) \ LegistarIndexed(L)

new_items(L, S) ==
    LET keys == SortedKeys(unmatched_socrata_keys(L, S))
    IN  [i \in 1..Len(keys) |->
            LET records == SocrataGroup(S, keys[i])
            IN  _merge_socrata_into_item(NewItem(keys[i], records[1]), records)]

\* phase3_correlate: the list it returns, and legistar_items as the merge
\* leaves its dicts
phase3_correlate(L, S) ==
    IF S = <<>> THEN [legistar_items |-> L, returned |-> L]
    ELSE LET merged == MergedLegistar(L, S)
         IN  [legistar_items |-> merged,
              returned |-> SortItems(merged \o new_items(L, S))]

(***************************************************************************)
(* phase3_correlate on the lists phase 1 and phase 2 hand to it            *)
(***************************************************************************)

MaxLegistar == 2    \* length of the Legistar item list
MaxSocrata == 2     \* length of the Socrata record list

D1 == <<"2", "0", "2", "5", "-", "1", "0", "-", "1", "5">>

D2 == <<"2", "0", "2", "5", "-", "1", "0", "-", "1", "6">>

\* the Socrata timestamp of D1
D1T ==
    <<"2", "0", "2", "5", "-", "1", "0", "-", "1", "5", "T", "0", "0", ":",
      "0", "0">>

LegistarTitle == <<"Z", "o", "n", "i", "n", "g">>

SocrataDescription == <<"P", "l", "a", "t">>

Ann == <<"A", "n", "n">>

Bo == <<"B", "o">>

YES == <<"Y", "E", "S">>

NO == <<"N", "O">>

BoundedSeq(S, n) == UNION {[1..k -> S] : k \in 0..n}

\* (event_date, agenda_number, agenda_sequence) of the Legistar items:
\* "12." and "012" are one key written twice, "." normalizes to ''
LegistarPool ==
    {[event_date |-> D1, agenda_number |-> <<"1", "2", ".">>,
      agenda_sequence |-> <<2>>],
     [event_date |-> D1, agenda_number |-> <<"0", "1", "2">>,
      agenda_sequence |-> <<1>>],
     [event_date |-> D1, agenda_number |-> <<".">>,
      agenda_sequence |-> <<>>],
     [event_date |-> D2, agenda_number |-> <<"7", ".">>,
      agenda_sequence |-> <<1>>]}

\* item_data as phase1_legistar builds it: a non-empty title, no vote data
LegistarItem(i, a) ==
    [event_item_id |-> <<i>>,
     event_date |-> a.event_date,
     agenda_number |-> a.agenda_number,
     agenda_sequence |-> a.agenda_sequence,
     title |-> LegistarTitle,
     passed |-> "None",
     vote_type |-> <<>>,
     socrata_item_number |-> <<>>,
     socrata_agenda_info |-> <<>>,
     socrata_final_action |-> <<>>,
     item_votes |-> EmptyDict]

\* phase1_legistar walks the meetings in EventDate order
DateOrdered(a) ==
    \A i \in 1..(Len(a) - 1) : ~StrLess(a[i + 1].event_date, a[i].event_date)

SocrataRecord(date, number, action, name, vote) ==
    [date |-> date,
     agenda_item_number |-> number,
     final_action_taken |-> action,
     agenda_item_description |-> SocrataDescription,
     item_type |-> <<"C", "A">>,
     voter_name |-> name,
     vote |-> vote]

\* the Socrata records: "12" and "012" are one key written twice, with two
\* voters, a voter recorded twice and a record without a voter name; a
\* record without agenda number; a record without date
SocrataPool ==
    {SocrataRecord(D1T, <<"1", "2">>,
                   <<"A", "P", "P", "R", "O", "V", "E", "D">>, Ann, YES),
     SocrataRecord(D1T, <<"1", "2">>,
                   <<"A", "P", "P", "R", "O", "V", "E", "D">>, Bo, NO),
     SocrataRecord(D1T, <<"0", "1", "2">>,
                   <<"D", "E", "N", "I", "E", "D">>, Ann, NO),
     SocrataRecord(D1T, <<"0", "1", "2">>,
                   <<"D", "E", "N", "I", "E", "D">>, <<>>, YES),
     SocrataRecord(D1T, <<>>, <<>>, Ann, YES),
     SocrataRecord(D2, <<"7">>, <<>>, Bo, YES),
     SocrataRecord(<<>>, <<"1", "2">>,
                   <<"D", "E", "F", "E", "R", "R", "E", "D">>, Ann, YES)}

InitCorrelate ==
    /\ pc = "start"
    /\ \E a \in BoundedSeq(LegistarPool, MaxLegistar) :
          /\ DateOrdered(a)
          /\ legistar_items = [i \in 1..Len(a) |-> LegistarItem(i, a[i])]
    /\ legistar_in = legistar_items
    /\ socrata_records \in BoundedSeq(SocrataPool, MaxSocrata)
    /\ all_items = <<>>
    /\ NormalizeIdle /\ VoteIdle /\ OutcomeIdle /\ LoadIdle
    /\ AggregateIdle /\ CallIdle /\ RerunIdle

Correlate ==
    /\ pc = "start"
    /\ LET result == phase3_correlate(legistar_items, socrata_records)
       IN  /\ all_items' = result.returned
           /\ legistar_items' = result.legistar_items
    /\ pc' = "done"
    /\ UNCHANGED <<load_vars, aggregate_vars, call_vars, rerun_vars, legistar_in, socrata_records, normalize_vars, vote_vars,
                   outcome_vars>>

NextCorrelate == Correlate

SpecCorrelate == InitCorrelate /\ [][NextCorrelate]_vars

(***************************************************************************)
(* Properties of phase3_correlate                                          *)
(***************************************************************************)

\* positions of the Socrata records grouped under a key
RecordsOf(key) ==
    {i \in 1..Len(socrata_records) : SocrataKey(socrata_records[i]) = key}

FirstRecordOf(key) ==
    socrata_records[CHOOSE i \in RecordsOf(key) : \A j \in RecordsOf(key) : i <= j]

\* the distinct non-empty voter names of a group
VotersOf(key) == {socrata_records[i].voter_name : i \in RecordsOf(key)} \ {<<>>}

\* the vote of the last record of the group that names the voter
LastVoteOf(key, name) ==
    LET named == {i \in RecordsOf(key) : socrata_records[i].voter_name = name}
    IN  socrata_records[CHOOSE i \in named : \A j \in named : j <= i].vote

CarriesVotesOf(item, key) ==
    /\ DOMAIN item.item_votes = VotersOf(key)
    /\ \A name \in VotersOf(key) : item.item_votes[name] = LastVoteOf(key, name)

\* positions of the source-A items passed in that have the key
LegistarWith(key) ==
    {i \in 1..Len(legistar_in) : LegistarKey(legistar_in[i]) = key}

\* a Socrata key that some source-A item has too, the number not being empty
HasLegistarMatch(key) == key[2] # <<>> /\ LegistarWith(key) # {}

\* positions of the output items that have the key
OutputWith(key) ==
    {j \in 1..Len(all_items) : LegistarKey(all_items[j]) = key}

\* the output item carries the data of the Socrata group of the key
Represents(item, key) ==
    /\ LegistarKey(item) = key
    /\ item.vote_type = SOCRATA_ROLL_CALL
    /\ item.socrata_item_number = FirstRecordOf(key).agenda_item_number
    /\ item.socrata_final_action = FirstRecordOf(key).final_action_taken
    /\ CarriesVotesOf(item, key)

\* C1 as stated: a Socrata group and a Legistar item with the same date and
\* the same (non-empty) normalized agenda number give exactly one output item
\* for that key, with the Legistar title and the group's vote mapping.
C1_ExactlyOneItemForKey ==
    pc = "done" =>
        \A key \in SocrataKeys(socrata_records) :
            HasLegistarMatch(key) =>
                /\ Cardinality(OutputWith(key)) = 1
                /\ \A j \in OutputWith(key) :
                      /\ all_items[j].title = LegistarTitle
                      /\ CarriesVotesOf(all_items[j], key)

\* C1 amended: of the output items with that key exactly one carries the
\* group's votes, the last Legistar item passed in with the key; it keeps its
\* Legistar title and maps every distinct non-empty voter name of the group to
\* the vote of the last record naming it.  The output holds one item per
\* Legistar item with the key, so exactly one when the key is not repeated.
C1_LastIndexedItemCarriesVotes ==
    pc = "done" =>
        \A key \in SocrataKeys(socrata_records) :
            HasLegistarMatch(key) =>
                LET last == CHOOSE i \in LegistarWith(key) :
                                \A j \in LegistarWith(key) : j <= i
                    merged == {j \in OutputWith(key) :
                                  all_items[j].vote_type = SOCRATA_ROLL_CALL}
                IN  /\ Cardinality(OutputWith(key)) = Cardinality(LegistarWith(key))
                    /\ Cardinality(merged) = 1
                    /\ \A j \in merged :
                          /\ all_items[j].event_item_id = <<last>>
                          /\ all_items[j].title = legistar_in[last].title
                          /\ CarriesVotesOf(all_items[j], key)
                    /\ \A j \in OutputWith(key) \ merged :
                          all_items[j].item_votes = EmptyDict

\* one Legistar item "12.", two Socrata records "12" and "012" of the same
\* voter: one output item, Legistar title, the later vote
C1_Witness ==
    /\ pc = "done"
    /\ Len(legistar_in) = 1
    /\ legistar_in[1].agenda_number = <<"1", "2", ".">>
    /\ Len(socrata_records) = 2
    /\ socrata_records[1].voter_name = Ann /\ socrata_records[1].vote = YES
    /\ socrata_records[2].voter_name = Ann /\ socrata_records[2].vote = NO
    /\ Len(all_items) = 1
    /\ all_items[1].title = LegistarTitle
    /\ all_items[1].item_votes = [n \in {Ann} |-> NO]

\* C2: every Socrata group is represented by exactly one output item, the
\* matched Legistar item or one synthesized item, and the output holds the
\* Legistar items plus one item per group without a Legistar match.
C2_NoGroupDropped ==
    pc = "done" =>
        /\ \A key \in SocrataKeys(socrata_records) :
              LET reps == {j \in 1..Len(all_items) : Represents(all_items[j], key)}
              IN  /\ Cardinality(reps) = 1
                  /\ \A j \in reps :
                        (all_items[j].event_item_id # <<>>) <=> HasLegistarMatch(key)
        /\ Len(all_items) =
              Len(legistar_in)
              + Cardinality({key \in SocrataKeys(socrata_records) :
                               ~HasLegistarMatch(key)})

\* two groups, one merged into a Legistar item and one without a date that
\* is synthesized
C2_Witness ==
    /\ pc = "done"
    /\ Len(legistar_in) = 1
    /\ Cardinality(SocrataKeys(socrata_records)) = 2
    /\ \E key \in SocrataKeys(socrata_records) : HasLegistarMatch(key)
    /\ \E key \in SocrataKeys(socrata_records) : key[1] = <<>>
    /\ Len(all_items) = 2

\* C3: a Legistar item whose normalized agenda number is empty is never
\* matched: it leaves phase3_correlate as it came, without votes, and a
\* Socrata group of the same date with an empty normalized number becomes a
\* synthesized item.
C3_EmptyNumberNeverMatched ==
    pc = "done" =>
        \A i \in 1..Len(legistar_in) :
            LET key == LegistarKey(legistar_in[i])
            IN  key[2] = <<>> =>
                  /\ \E j \in 1..Len(all_items) : all_items[j] = legistar_in[i]
                  /\ \A j \in 1..Len(all_items) :
                        all_items[j].event_item_id = <<i>> =>
                            /\ all_items[j].item_votes = EmptyDict
                            /\ all_items[j].vote_type = <<>>
                  /\ key \in SocrataKeys(socrata_records) =>
                        \E j \in 1..Len(all_items) :
                            /\ all_items[j].event_item_id = <<>>
                            /\ Represents(all_items[j], key)

\* a Legistar item numbered "." and a Socrata vote of Ann on the same date
\* with no agenda number
C3_Witness ==
    /\ pc = "done"
    /\ \E i \in 1..Len(legistar_in) :
          /\ legistar_in[i].agenda_number = <<".">>
          /\ <<legistar_in[i].event_date, <<>>>> \in SocrataKeys(socrata_records)
          /\ \E j \in 1..Len(all_items) :
                /\ all_items[j].event_item_id = <<>>
                /\ all_items[j].event_date = legistar_in[i].event_date
                /\ Ann \in DOMAIN all_items[j].item_votes

\* C4: the returned list is ordered by (event date, numeric agenda sequence
\* or 0, raw agenda-number string) for every pair of input lists, an empty
\* Socrata list included.
C4_OutputSorted ==
    pc = "done" =>
        \A i \in 1..Len(all_items), j \in 1..Len(all_items) :
            i < j => ~ItemLess(all_items[j], all_items[i])

(***************************************************************************)
(* build_site.py: map_vote                                                 *)
(*                                                                         *)
(* The normalized choices are "AYE", "NAY", "ABSTAIN", "ABSENT"; Python's  *)
(* None is written "None".                                                 *)
(***************************************************************************)

\* VOTE_MAP.get(v, None)
VOTE_MAP_get(v) ==
    IF v = <<"Y", "E", "S">> THEN "AYE"
    ELSE IF v = <<"N", "O">> THEN "NAY"
    ELSE IF v = <<"A", "W", "V", "T">> THEN "ABSENT"
    ELSE IF v = <<"A", "B", "S", "N", "T">> THEN "ABSENT"
    ELSE IF v = <<"A", "B", "S", "N", "T", "_", "C", "B">> THEN "ABSENT"
    ELSE IF v = <<"A", "B", "S", "T">> THEN "ABSTAIN"
    ELSE "None"

\* a slip that counts an unknown code as an abstention
map_vote_unknown_abstains(token) ==
    LET v == upper(strip(token))
    IN  IF v = <<>> \/ v = <<"N", "/", "A">> THEN "None"
        ELSE IF VOTE_MAP_get(v) = "None" THEN "ABSTAIN"
        ELSE VOTE_MAP_get(v)

map_vote(token) ==
    LET v == upper(strip(token))
    IN  IF v = <<>> \/ v = <<"N", "/", "A">> THEN "None"
        ELSE VOTE_MAP_get(v)

(***************************************************************************)
(* map_vote applied to one raw vote token                                  *)
(***************************************************************************)

\* the six codes of the table
TableTokens ==
    {<<"Y", "E", "S">>, <<"N", "O">>, <<"A", "W", "V", "T">>, <<"A", "B", "S", "N", "T">>, <<"A", "B", "S", "N", "T", "_", "C", "B">>, <<"A", "B", "S", "T">>}

\* tokens that are not in the table: the not-applicable token, the names of
\* the normalized choices, misspelt and foreign codes
OtherTokens ==
    {<<"N", "/", "A">>, <<"A", "Y", "E">>, <<"N", "A", "Y">>, <<"A", "B", "S", "E", "N", "T">>, <<"A", "B", "S", "T", "A", "I", "N">>, <<"R", "E", "C", "U", "S", "A", "L">>,
     <<"Y">>, <<"Y", "E", "S", "S">>, <<"A", "B", "S", "N", "T", "_", "C">>, <<"A", "B", "S", " ", "N", "T">>, <<"P", "R", "E", "S", "E", "N", "T">>, <<"-">>, <<"N", "O", "T">>}

\* a token as a CSV cell may hold it: padded, and in either case
Spelt(pre, token, lowered, post) ==
    pre \o (IF lowered THEN lower(token) ELSE token) \o post

VoteTokens ==
    {Spelt(pre, token, lowered, post) :
        pre \in Pads, token \in TableTokens \cup OtherTokens,
        lowered \in BOOLEAN, post \in Pads}
    \cup Pads

InitVote ==
    /\ pc = "start"
    /\ raw_vote \in VoteTokens
    /\ mapped = "None"
    /\ NormalizeIdle /\ CorrelateIdle /\ OutcomeIdle /\ LoadIdle
    /\ AggregateIdle /\ CallIdle /\ RerunIdle

MapVote ==
    /\ pc = "start"
    /\ mapped' = map_vote(raw_vote)
    /\ pc' = "done"
    /\ UNCHANGED <<load_vars, aggregate_vars, call_vars, rerun_vars, raw_vote, normalize_vars, correlate_vars, outcome_vars>>

NextVote == MapVote

SpecVote == InitVote /\ [][NextVote]_vars

\* the choice the documented table gives a code
TableChoice(token) ==
    CASE token = <<"Y", "E", "S">> -> "AYE"
      [] token = <<"N", "O">> -> "NAY"
      [] token = <<"A", "B", "S", "T">> -> "ABSTAIN"
      [] token \in {<<"A", "W", "V", "T">>, <<"A", "B", "S", "N", "T">>, <<"A", "B", "S", "N", "T", "_", "C", "B">>} -> "ABSENT"

\* C6: map_vote gives None for the empty token, for "N/A" and for every
\* token outside the table, YES gives AYE, NO gives NAY, ABST gives ABSTAIN,
\* AWVT, ABSNT and ABSNT_CB give ABSENT (tokens are compared trimmed and
\* upper-cased), and the result is None or one of AYE, NAY, ABSTAIN, ABSENT,
\* RECUSAL.
C6_MapVoteTable ==
    pc = "done" =>
        /\ mapped \in {"None", "AYE", "NAY", "ABSTAIN", "ABSENT", "RECUSAL"}
        /\ \A pre \in Pads, post \in Pads, lowered \in BOOLEAN :
              /\ \A token \in TableTokens :
                    raw_vote = Spelt(pre, token, lowered, post)
                        => mapped = TableChoice(token)
              /\ \A token \in OtherTokens :
                    raw_vote = Spelt(pre, token, lowered, post)
                        => mapped = "None"
        /\ (raw_vote \in Pads => mapped = "None")

\* "ABSNT_CB" gives ABSENT
C6_Witness ==
    /\ pc = "done"
    /\ raw_vote = <<"A", "B", "S", "N", "T", "_", "C", "B">>
    /\ mapped = "ABSENT"

(***************************************************************************)
(* build_site.py: derive_outcome                                           *)
(***************************************************************************)

OUTCOME_APPROVAL ==
    <<<<"A", "P", "P", "R", "O", "V", "E", "D">>, <<"A", "D", "O", "P", "T", "E", "D">>, <<"P", "A", "S", "S", "E", "D">>, <<"C", "O", "N", "F", "I", "R", "M", "E", "D">>, <<"A", "C", "C", "E", "P", "T", "E", "D">>,
      <<"G", "R", "A", "N", "T", "E", "D">>, <<"S", "U", "S", "T", "A", "I", "N", "E", "D">>, <<"R", "A", "T", "I", "F", "I", "E", "D">>>>

OUTCOME_DENIAL == <<<<"D", "E", "N", "I", "E", "D">>, <<"R", "E", "J", "E", "C", "T", "E", "D">>, <<"D", "E", "F", "E", "A", "T", "E", "D">>, <<"F", "A", "I", "L", "E", "D">>>>

\* a slip that never looks at the text of a failed item
derive_outcome_zero_fails(passed, fa_raw, ms_raw) ==
    LET p == strip(passed)
        fa == upper(strip(fa_raw))
        ms == upper(strip(ms_raw))
    IN  IF p = <<"1">> THEN "PASS"
        ELSE IF p = <<"0">> THEN "FAIL"
        ELSE IF ContainsAny(fa, OUTCOME_APPROVAL) THEN "PASS"
        ELSE IF Contains(fa, <<"A", "M", "E", "N", "D", "E", "D">>) THEN "PASS"
        ELSE IF ContainsAny(fa, OUTCOME_DENIAL) THEN "FAIL"
        ELSE IF Contains(fa, <<"D", "E", "F", "E", "R", "R", "E", "D">>) \/ Contains(fa, <<"H", "E", "L", "D">>)
             THEN "CONTINUED"
        ELSE IF Contains(fa, <<"D", "E", "L", "E", "T", "E", "D">>) \/ Contains(fa, <<"W", "I", "T", "H", "D", "R", "A", "W", "N">>)
             THEN "WITHDRAWN"
        ELSE IF Contains(fa, <<"R", "E", "M", "A", "N", "D", "E", "D">>) THEN "CONTINUED"
        ELSE IF Contains(fa, <<"T", "A", "B", "L", "E", "D">>) THEN "TABLED"
        ELSE IF Contains(ms, <<"A", "P", "P", "R", "O", "V", "E", "D">>) THEN "PASS"
        ELSE IF Contains(ms, <<"D", "E", "F", "E", "R", "R", "E", "D">>) THEN "CONTINUED"
        ELSE "PASS"

\* a slip that tests the denial keywords before the approval keywords
derive_outcome_denial_first(passed, fa_raw, ms_raw) ==
    LET p == strip(passed)
        fa == upper(strip(fa_raw))
        ms == upper(strip(ms_raw))
    IN  IF p = <<"1">> THEN "PASS"
        ELSE IF p = <<"0">> THEN
            IF Contains(fa, <<"D", "E", "N", "I", "E", "D">>) THEN "FAIL"
            ELSE IF Contains(fa, <<"D", "E", "F", "E", "R", "R", "E", "D">>) THEN "CONTINUED"
            ELSE IF Contains(fa, <<"D", "E", "L", "E", "T", "E", "D">>) THEN "WITHDRAWN"
            ELSE IF Contains(fa, <<"D", "I", "D", " ", "N", "O", "T", " ", "P", "A", "S", "S">>) THEN "FAIL"
            ELSE "FAIL"
        ELSE IF ContainsAny(fa, OUTCOME_DENIAL) THEN "FAIL"
        ELSE IF ContainsAny(fa, OUTCOME_APPROVAL) THEN "PASS"
        ELSE IF Contains(fa, <<"A", "M", "E", "N", "D", "E", "D">>) THEN "PASS"
        ELSE IF Contains(fa, <<"D", "E", "F", "E", "R", "R", "E", "D">>) \/ Contains(fa, <<"H", "E", "L", "D">>)
             THEN "CONTINUED"
        ELSE IF Contains(fa, <<"D", "E", "L", "E", "T", "E", "D">>) \/ Contains(fa, <<"W", "I", "T", "H", "D", "R", "A", "W", "N">>)
             THEN "WITHDRAWN"
        ELSE IF Contains(fa, <<"R", "E", "M", "A", "N", "D", "E", "D">>) THEN "CONTINUED"
        ELSE IF Contains(fa, <<"T", "A", "B", "L", "E", "D">>) THEN "TABLED"
        ELSE IF Contains(ms, <<"A", "P", "P", "R", "O", "V", "E", "D">>) THEN "PASS"
        ELSE IF Contains(ms, <<"D", "E", "F", "E", "R", "R", "E", "D">>) THEN "CONTINUED"
        ELSE "PASS"

\* passed is the CSV cell as str() gives it: "1", "0" or another text
derive_outcome(passed, fa_raw, ms_raw) ==
    LET p == strip(passed)
        fa == upper(strip(fa_raw))
        ms == upper(strip(ms_raw))
    IN  IF p = <<"1">> THEN "PASS"
        ELSE IF p = <<"0">> THEN
            IF Contains(fa, <<"D", "E", "N", "I", "E", "D">>) THEN "FAIL"
            ELSE IF Contains(fa, <<"D", "E", "F", "E", "R", "R", "E", "D">>) THEN "CONTINUED"
            ELSE IF Contains(fa, <<"D", "E", "L", "E", "T", "E", "D">>) THEN "WITHDRAWN"
            ELSE IF Contains(fa, <<"D", "I", "D", " ", "N", "O", "T", " ", "P", "A", "S", "S">>) THEN "FAIL"
            ELSE "FAIL"
        ELSE IF ContainsAny(fa, OUTCOME_APPROVAL) THEN "PASS"
        ELSE IF Contains(fa, <<"A", "M", "E", "N", "D", "E", "D">>) THEN "PASS"
        ELSE IF ContainsAny(fa, OUTCOME_DENIAL) THEN "FAIL"
        ELSE IF Contains(fa, <<"D", "E", "F", "E", "R", "R", "E", "D">>) \/ Contains(fa, <<"H", "E", "L", "D">>)
             THEN "CONTINUED"
        ELSE IF Contains(fa, <<"D", "E", "L", "E", "T", "E", "D">>) \/ Contains(fa, <<"W", "I", "T", "H", "D", "R", "A", "W", "N">>)
             THEN "WITHDRAWN"
        ELSE IF Contains(fa, <<"R", "E", "M", "A", "N", "D", "E", "D">>) THEN "CONTINUED"
        ELSE IF Contains(fa, <<"T", "A", "B", "L", "E", "D">>) THEN "TABLED"
        ELSE IF Contains(ms, <<"A", "P", "P", "R", "O", "V", "E", "D">>) THEN "PASS"
        ELSE IF Contains(ms, <<"D", "E", "F", "E", "R", "R", "E", "D">>) THEN "CONTINUED"
        ELSE "PASS"

(***************************************************************************)
(* derive_outcome applied to one row's passed, final action and status     *)
(***************************************************************************)

MaxPhrases == 2     \* keyword phrases joined into one final-action text

\* the phrases the classifier looks for, and some it does not
ActionPhrases ==
    {<<"A", "P", "P", "R", "O", "V", "E", "D">>, <<"A", "D", "O", "P", "T", "E", "D">>, <<"P", "A", "S", "S", "E", "D">>, <<"C", "O", "N", "F", "I", "R", "M", "E", "D">>, <<"A", "C", "C", "E", "P", "T", "E", "D">>,
     <<"G", "R", "A", "N", "T", "E", "D">>, <<"S", "U", "S", "T", "A", "I", "N", "E", "D">>, <<"R", "A", "T", "I", "F", "I", "E", "D">>, <<"A", "M", "E", "N", "D", "E", "D">>, <<"D", "E", "N", "I", "E", "D">>,
     <<"R", "E", "J", "E", "C", "T", "E", "D">>, <<"D", "E", "F", "E", "A", "T", "E", "D">>, <<"F", "A", "I", "L", "E", "D">>, <<"D", "E", "F", "E", "R", "R", "E", "D">>, <<"H", "E", "L", "D">>,
     <<"D", "E", "L", "E", "T", "E", "D">>, <<"W", "I", "T", "H", "D", "R", "A", "W", "N">>, <<"R", "E", "M", "A", "N", "D", "E", "D">>, <<"T", "A", "B", "L", "E", "D">>,
     <<"D", "I", "D", " ", "N", "O", "T", " ", "P", "A", "S", "S">>, <<"M", "o", "t", "i", "o", "n", " ", "a", "p", "p", "r", "o", "v", "e", "d">>, <<"I", "T", "E", "M", " ", "D", "E", "N", "I", "E", "D">>,
     <<"N", "O", " ", "A", "C", "T", "I", "O", "N">>}

\* phrases joined by "; "
RECURSIVE Joined(_)
Joined(phrases) ==
    IF Len(phrases) = 0 THEN <<>>
    ELSE IF Len(phrases) = 1 THEN phrases[1]
    ELSE phrases[1] \o <<";", " ">> \o Joined(Tail(phrases))

FinalActions ==
    {Joined(ph) : ph \in BoundedSeq(ActionPhrases, MaxPhrases)}

MatterStatuses == {<<>>, <<"A", "p", "p", "r", "o", "v", "e", "d">>, <<"D", "E", "F", "E", "R", "R", "E", "D">>, <<"C", "o", "n", "s", "e", "n", "t", " ", "A", "g", "e", "n", "d", "a">>}

\* the passed cell: 1, 0, empty (None), and a padded 0
PassedCells == {<<"1">>, <<"0">>, <<>>, <<" ", "0">>}

InitOutcome ==
    /\ pc = "start"
    /\ passed_val \in PassedCells
    /\ final_action \in FinalActions
    /\ matter_status \in MatterStatuses
    /\ outcome = "None"
    /\ NormalizeIdle /\ CorrelateIdle /\ VoteIdle /\ LoadIdle
    /\ AggregateIdle /\ CallIdle /\ RerunIdle

DeriveOutcome ==
    /\ pc = "start"
    /\ outcome' = derive_outcome(passed_val, final_action, matter_status)
    /\ pc' = "done"
    /\ UNCHANGED <<load_vars, aggregate_vars, call_vars, rerun_vars, passed_val, final_action, matter_status, normalize_vars,
                   correlate_vars, vote_vars>>

NextOutcome == DeriveOutcome

SpecOutcome == InitOutcome /\ [][NextOutcome]_vars

\* the text mentions the keyword, in any case
Mentions(text, keyword) == Contains(upper(text), keyword)

MentionsAny(text, keywords) == \E k \in keywords : Mentions(text, k)

FlagTrue == passed_val = <<"1">>

FlagFalse == passed_val \in {<<"0">>, <<" ", "0">>}

NoFlag == passed_val = <<>>

\* C7 as stated: a true flag gives PASS; a false flag gives FAIL when the
\* final action contains DENIED or DID NOT PASS, else CONTINUED when it
\* contains DEFERRED, else WITHDRAWN when it contains DELETED, else FAIL.
C7_FlagOrderAsStated ==
    pc = "done" =>
        /\ FlagTrue => outcome = "PASS"
        /\ FlagFalse =>
              outcome =
                IF \/ Mentions(final_action, <<"D", "E", "N", "I", "E", "D">>)
                   \/ Mentions(final_action, <<"D", "I", "D", " ", "N", "O", "T", " ", "P", "A", "S", "S">>) THEN "FAIL"
                ELSE IF Mentions(final_action, <<"D", "E", "F", "E", "R", "R", "E", "D">>) THEN "CONTINUED"
                ELSE IF Mentions(final_action, <<"D", "E", "L", "E", "T", "E", "D">>) THEN "WITHDRAWN"
                ELSE "FAIL"

\* C7 amended: a true flag gives PASS; a false flag gives FAIL when the
\* final action contains DENIED, else CONTINUED when it contains DEFERRED,
\* else WITHDRAWN when it contains DELETED, else FAIL (DID NOT PASS is
\* looked at last and does not override DEFERRED or DELETED).
C7_FlagOrder ==
    pc = "done" =>
        /\ FlagTrue => outcome = "PASS"
        /\ FlagFalse =>
              outcome =
                IF Mentions(final_action, <<"D", "E", "N", "I", "E", "D">>) THEN "FAIL"
                ELSE IF Mentions(final_action, <<"D", "E", "F", "E", "R", "R", "E", "D">>) THEN "CONTINUED"
                ELSE IF Mentions(final_action, <<"D", "E", "L", "E", "T", "E", "D">>) THEN "WITHDRAWN"
                ELSE "FAIL"

\* passed = 0 and "DEFERRED; DID NOT PASS" give CONTINUED
C7_Witness ==
    /\ pc = "done"
    /\ passed_val = <<"0">>
    /\ final_action = <<"D", "E", "F", "E", "R", "R", "E", "D", ";", " ", "D", "I", "D", " ", "N", "O", "T", " ", "P", "A", "S", "S">>
    /\ outcome = "CONTINUED"

\* C8: without a flag the first of these decides: an approval keyword
\* (AMENDED included) gives PASS, a denial keyword FAIL, DEFERRED or HELD
\* CONTINUED, DELETED or WITHDRAWN WITHDRAWN, REMANDED CONTINUED, TABLED
\* TABLED, then a matter status with APPROVED gives PASS, with DEFERRED
\* CONTINUED, otherwise PASS; the result is one of the five outcomes.
C8_NoFlagPrecedence ==
    pc = "done" =>
        /\ outcome \in {"PASS", "FAIL", "CONTINUED", "WITHDRAWN", "TABLED"}
        /\ NoFlag =>
              outcome =
                IF MentionsAny(final_action,
                       {<<"A", "P", "P", "R", "O", "V", "E", "D">>, <<"A", "D", "O", "P", "T", "E", "D">>, <<"P", "A", "S", "S", "E", "D">>, <<"C", "O", "N", "F", "I", "R", "M", "E", "D">>,
                        <<"A", "C", "C", "E", "P", "T", "E", "D">>, <<"G", "R", "A", "N", "T", "E", "D">>, <<"S", "U", "S", "T", "A", "I", "N", "E", "D">>,
                        <<"R", "A", "T", "I", "F", "I", "E", "D">>, <<"A", "M", "E", "N", "D", "E", "D">>}) THEN "PASS"
                ELSE IF MentionsAny(final_action,
                       {<<"D", "E", "N", "I", "E", "D">>, <<"R", "E", "J", "E", "C", "T", "E", "D">>, <<"D", "E", "F", "E", "A", "T", "E", "D">>, <<"F", "A", "I", "L", "E", "D">>})
                     THEN "FAIL"
                ELSE IF MentionsAny(final_action, {<<"D", "E", "F", "E", "R", "R", "E", "D">>, <<"H", "E", "L", "D">>})
                     THEN "CONTINUED"
                ELSE IF MentionsAny(final_action, {<<"D", "E", "L", "E", "T", "E", "D">>, <<"W", "I", "T", "H", "D", "R", "A", "W", "N">>})
                     THEN "WITHDRAWN"
                ELSE IF Mentions(final_action, <<"R", "E", "M", "A", "N", "D", "E", "D">>) THEN "CONTINUED"
                ELSE IF Mentions(final_action, <<"T", "A", "B", "L", "E", "D">>) THEN "TABLED"
                ELSE IF Mentions(matter_status, <<"A", "P", "P", "R", "O", "V", "E", "D">>) THEN "PASS"
                ELSE IF Mentions(matter_status, <<"D", "E", "F", "E", "R", "R", "E", "D">>) THEN "CONTINUED"
                ELSE "PASS"

\* no flag, "DENIED; AMENDED" and a deferred matter give PASS
C8_Witness ==
    /\ pc = "done"
    /\ passed_val = <<>>
    /\ final_action = <<"D", "E", "N", "I", "E", "D", ";", " ", "A", "M", "E", "N", "D", "E", "D">>
    /\ matter_status = <<"D", "E", "F", "E", "R", "R", "E", "D">>
    /\ outcome = "PASS"

(***************************************************************************)
(* build_site.py: name normalization and the classifiers the loader calls  *)
(***************************************************************************)

NAME_ALIASES ==
    <<<<<<"A", "d", "a", "m", " ", " ", "B", "a", "z", "a", "l", "d", "u", "a">>,
        <<"A", "d", "a", "m", " ", "B", "a", "z", "a", "l", "d", "u", "a">>>>,
      <<<<"A", "d", "a", "m", " ", " ", "M", "e", "d", "r", "a", "n", "o">>,
        <<"A", "d", "a", "m", " ", "M", "e", "d", "r", "a", "n", "o">>>>,
      <<<<"B", ".", " ", "A", "d", "a", "m", " ", "M", "c", "G", "o", "u", "g", "h">>,
        <<"A", "d", "a", "m", " ", "M", "c", "G", "o", "u", "g", "h">>>>,
      <<<<"C", "a", "r", "o", "l", "y", "n", " ", "A", "r", "n", "o", "l", "d">>,
        <<"C", "a", "r", "o", "l", "y", "n", " ", "K", "i", "n", "g", " ", "A", "r", "n", "o", "l", "d">>>>,
      <<<<"C", "a", "r", "o", "l", "y", "n", " ", "K", "i", "n", "g", " ", " ", "A", "r", "n", "o", "l", "d">>,
        <<"C", "a", "r", "o", "l", "y", "n", " ", "K", "i", "n", "g", " ", "A", "r", "n", "o", "l", "d">>>>,
      <<<<"G", "a", "y", " ", "D", "o", "n", "n", "e", "l", " ", "W", "i", "l", "l", "i", "s">>,
        <<"G", "a", "y", " ", "D", "o", "n", "n", "e", "l", "l", " ", "W", "i", "l", "l", "i", "s">>>>,
      <<<<"J", "a", "y", "n", "i", "e", " ", "S", "c", "h", "u", "l", "t", "z">>,
        <<"J", "a", "y", "n", "i", "e", " ", "S", "h", "u", "l", "t", "z">>>>,
      <<<<"J", "e", "n", "n", "i", "f", "e", "r", " ", "S", ".", " ", " ", "G", "a", "t", "e", "s">>,
        <<"J", "e", "n", "n", "i", "f", "e", "r", " ", "S", ".", " ", "G", "a", "t", "e", "s">>>>,
      <<<<"J", "e", "s", "s", "e", " ", " ", "M", "o", "r", "e", "n", "o">>,
        <<"J", "e", "s", "s", "e", " ", "M", "o", "r", "e", "n", "o">>>>,
      <<<<"T", "e", "n", "n", "e", "l", " ", "A", "t", "k", "i", "n", "s">>,
        <<"T", "e", "n", "n", "e", "l", "l", " ", "A", "t", "k", "i", "n", "s">>>>,
      <<<<"T", "e", "n", "n", "e", "l", "l", " ", " ", "A", "t", "k", "i", "n", "s">>,
        <<"T", "e", "n", "n", "e", "l", "l", " ", "A", "t", "k", "i", "n", "s">>>>,
      <<<<"Z", "a", "r", "i", "n", " ", "D", ".", " ", "G", "r", "a", "c", "e", "y">>,
        <<"Z", "a", "r", "i", "n", " ", "G", "r", "a", "c", "e", "y">>>>>>

SECTION_HEADERS ==
    <<<<"A", "G", "E", "N", "D", "A">>,
      <<"O", "R", "D", "E", "R", " ", "O", "F", " ", "B", "U", "S", "I", "N", "E", "S", "S">>,
      <<"I", "N", "V", "O", "C", "A", "T", "I", "O", "N">>,
      <<"P", "L", "E", "D", "G", "E", " ", "O", "F", " ", "A", "L", "L", "E", "G", "I", "A", "N", "C", "E">>,
      <<"O", "P", "E", "N", " ", "M", "I", "C", "R", "O", "P", "H", "O", "N", "E">>,
      <<"M", "I", "N", "U", "T", "E", "S">>,
      <<"C", "O", "N", "S", "E", "N", "T", " ", "A", "G", "E", "N", "D", "A">>,
      <<"I", "T", "E", "M", "S", " ", "F", "O", "R", " ", "I", "N", "D", "I", "V", "I", "D", "U", "A", "L", " ", "C", "O", "N", "S", "I", "D", "E", "R", "A", "T", "I", "O", "N">>,
      <<"A", "D", "D", "I", "T", "I", "O", "N", "S">>,
      <<"Z", "O", "N", "I", "N", "G">>,
      <<"P", "U", "B", "L", "I", "C", " ", "H", "E", "A", "R", "I", "N", "G", "S", " ", "A", "N", "D", " ", "R", "E", "L", "A", "T", "E", "D", " ", "A", "C", "T", "I", "O", "N", "S">>,
      <<"A", "D", "J", "O", "U", "R", "N", "M", "E", "N", "T">>,
      <<"B", "R", "I", "E", "F", "I", "N", "G", "S">>,
      <<"P", "R", "E", "S", "E", "N", "T", "A", "T", "I", "O", "N", "S">>>>

TOPIC_KEYWORDS ==
    <<[topic |-> "Appointments",
       keywords |->
         <<<<"a", "p", "p", "o", "i", "n", "t", "m", "e", "n", "t">>,
           <<"b", "o", "a", "r", "d">>,
           <<"c", "o", "m", "m", "i", "s", "s", "i", "o", "n">>,
           <<"n", "o", "m", "i", "n", "a", "t", "e">>,
           <<"n", "o", "m", "i", "n", "e", "e">>>>],
      [topic |-> "Budget & Finance",
       keywords |->
         <<<<"b", "u", "d", "g", "e", "t">>,
           <<"a", "p", "p", "r", "o", "p", "r", "i", "a", "t", "i", "o", "n">>,
           <<"r", "e", "v", "e", "n", "u", "e">>,
           <<"f", "i", "s", "c", "a", "l">>,
           <<"t", "a", "x", " ", "i", "n", "c", "r", "e", "m", "e", "n", "t">>,
           <<"f", "i", "n", "a", "n", "c", "i", "n", "g">>,
           <<"f", "i", "n", "a", "n", "c", "i", "a", "l">>,
           <<"f", "u", "n", "d">>,
           <<"b", "o", "n", "d">>,
           <<"r", "e", "v", "e", "n", "u", "e">>>>],
      [topic |-> "Community Services",
       keywords |->
         <<<<"l", "i", "b", "r", "a", "r", "y">>,
           <<"l", "i", "b", "r", "a", "r", "i", "e", "s">>,
           <<"s", "o", "c", "i", "a", "l", " ", "s", "e", "r", "v", "i", "c", "e">>,
           <<"c", "o", "m", "m", "u", "n", "i", "t", "y">>,
           <<"n", "o", "n", "p", "r", "o", "f", "i", "t">>,
           <<"n", "o", "n", "-", "p", "r", "o", "f", "i", "t">>,
           <<"y", "o", "u", "t", "h">>,
           <<"s", "e", "n", "i", "o", "r">>>>],
      [topic |-> "Contracts & Agreements",
       keywords |->
         <<<<"c", "o", "n", "t", "r", "a", "c", "t">>,
           <<"a", "g", "r", "e", "e", "m", "e", "n", "t">>,
           <<"m", "e", "m", "o", "r", "a", "n", "d", "u", "m", " ", "o", "f", " ", "u", "n", "d", "e", "r", "s", "t", "a", "n", "d", "i", "n", "g">>,
           <<"m", "o", "u">>,
           <<"v", "e", "n", "d", "o", "r">>,
           <<"p", "r", "o", "c", "u", "r", "e", "m", "e", "n", "t">>,
           <<"r", "f", "p">>,
           <<"s", "u", "p", "p", "l", "e", "m", "e", "n", "t", "a", "l", " ", "a", "g", "r", "e", "e", "m", "e", "n", "t">>,
           <<"i", "n", "t", "e", "r", "l", "o", "c", "a", "l">>,
           <<"p", "r", "o", "f", "e", "s", "s", "i", "o", "n", "a", "l", " ", "s", "e", "r", "v", "i", "c", "e", "s">>>>],
      [topic |-> "Economic Development",
       keywords |->
         <<<<"e", "c", "o", "n", "o", "m", "i", "c", " ", "d", "e", "v", "e", "l", "o", "p", "m", "e", "n", "t">>,
           <<"i", "n", "c", "e", "n", "t", "i", "v", "e">>,
           <<"r", "e", "d", "e", "v", "e", "l", "o", "p", "m", "e", "n", "t">>,
           <<"t", "i", "f">>,
           <<"t", "a", "x", " ", "i", "n", "c", "r", "e", "m", "e", "n", "t">>,
           <<"b", "u", "s", "i", "n", "e", "s", "s">>,
           <<"c", "o", "m", "m", "e", "r", "c", "i", "a", "l">>>>],
      [topic |-> "Emergency Services",
       keywords |->
         <<<<"p", "o", "l", "i", "c", "e">>,
           <<"f", "i", "r", "e">>,
           <<"e", "m", "s">>,
           <<"e", "m", "e", "r", "g", "e", "n", "c", "y">>,
           <<"d", "i", "s", "a", "s", "t", "e", "r">>,
           <<"d", "p", "d">>,
           <<"f", "i", "r", "e", "-", "r", "e", "s", "c", "u", "e">>,
           <<"p", "u", "b", "l", "i", "c", " ", "s", "a", "f", "e", "t", "y">>,
           <<"l", "a", "w", " ", "e", "n", "f", "o", "r", "c", "e", "m", "e", "n", "t">>>>],
      [topic |-> "Health & Safety",
       keywords |->
         <<<<"h", "e", "a", "l", "t", "h">>,
           <<"s", "a", "f", "e", "t", "y">>,
           <<"c", "o", "d", "e", " ", "e", "n", "f", "o", "r", "c", "e", "m", "e", "n", "t">>,
           <<"s", "a", "n", "i", "t", "a", "t", "i", "o", "n">>,
           <<"e", "n", "v", "i", "r", "o", "n", "m", "e", "n", "t", "a", "l">>,
           <<"h", "a", "z", "a", "r", "d", "o", "u", "s">>,
           <<"p", "o", "l", "l", "u", "t", "i", "o", "n">>>>],
      [topic |-> "Housing",
       keywords |->
         <<<<"h", "o", "u", "s", "i", "n", "g">>,
           <<"a", "f", "f", "o", "r", "d", "a", "b", "l", "e">>,
           <<"r", "e", "s", "i", "d", "e", "n", "t", "i", "a", "l">>,
           <<"t", "e", "n", "a", "n", "t">>,
           <<"h", "o", "m", "e", "l", "e", "s", "s">>,
           <<"s", "h", "e", "l", "t", "e", "r">>>>],
      [topic |-> "Infrastructure",
       keywords |->
         <<<<"i", "n", "f", "r", "a", "s", "t", "r", "u", "c", "t", "u", "r", "e">>,
           <<"w", "a", "t", "e", "r">>,
           <<"s", "e", "w", "e", "r">>,
           <<"d", "r", "a", "i", "n", "a", "g", "e">>,
           <<"s", "t", "o", "r", "m">>,
           <<"u", "t", "i", "l", "i", "t", "y">>,
           <<"u", "t", "i", "l", "i", "t", "i", "e", "s">>,
           <<"p", "i", "p", "e", "l", "i", "n", "e">>,
           <<"w", "a", "t", "e", "r", "s", "h", "e", "d">>,
           <<"d", "w", "u">>>>],
      [topic |-> "Ordinances & Resolutions",
       keywords |->
         <<<<"o", "r", "d", "i", "n", "a", "n", "c", "e">>,
           <<"r", "e", "s", "o", "l", "u", "t", "i", "o", "n">>,
           <<"m", "u", "n", "i", "c", "i", "p", "a", "l", " ", "c", "o", "d", "e">>,
           <<"a", "m", "e", "n", "d">>,
           <<"c", "h", "a", "p", "t", "e", "r">>,
           <<"c", "o", "d", "e", " ", "a", "m", "e", "n", "d", "m", "e", "n", "t">>>>],
      [topic |-> "Parks & Recreation",
       keywords |->
         <<<<"p", "a", "r", "k">>,
           <<"r", "e", "c", "r", "e", "a", "t", "i", "o", "n">>,
           <<"t", "r", "a", "i", "l">>,
           <<"p", "l", "a", "y", "g", "r", "o", "u", "n", "d">>,
           <<"o", "p", "e", "n", " ", "s", "p", "a", "c", "e">>>>],
      [topic |-> "Planning & Development",
       keywords |->
         <<<<"z", "o", "n", "i", "n", "g">>,
           <<"l", "a", "n", "d", " ", "u", "s", "e">>,
           <<"p", "l", "a", "n", "n", "i", "n", "g">>,
           <<"p", "e", "r", "m", "i", "t">>,
           <<"p", "l", "a", "t">>,
           <<"s", "p", "e", "c", "i", "f", "i", "c", " ", "u", "s", "e">>,
           <<"c", "o", "m", "p", "r", "e", "h", "e", "n", "s", "i", "v", "e", " ", "p", "l", "a", "n">>,
           <<"v", "a", "r", "i", "a", "n", "c", "e">>,
           <<"p", "l", "a", "n", "n", "e", "d", " ", "d", "e", "v", "e", "l", "o", "p", "m", "e", "n", "t">>,
           <<"c", "p", "c">>>>],
      [topic |-> "Property & Real Estate",
       keywords |->
         <<<<"p", "r", "o", "p", "e", "r", "t", "y">>,
           <<"r", "e", "a", "l", " ", "e", "s", "t", "a", "t", "e">>,
           <<"e", "a", "s", "e", "m", "e", "n", "t">>,
           <<"l", "e", "a", "s", "e">>,
           <<"d", "e", "e", "d">>,
           <<"r", "i", "g", "h", "t", "-", "o", "f", "-", "w", "a", "y">>,
           <<"r", "i", "g", "h", "t", " ", "o", "f", " ", "w", "a", "y">>,
           <<"c", "o", "n", "v", "e", "y", "a", "n", "c", "e">>>>],
      [topic |-> "Public Works",
       keywords |->
         <<<<"s", "t", "r", "e", "e", "t">>,
           <<"r", "o", "a", "d">>,
           <<"m", "a", "i", "n", "t", "e", "n", "a", "n", "c", "e">>,
           <<"w", "a", "s", "t", "e">>,
           <<"s", "a", "n", "i", "t", "a", "r", "y">>,
           <<"f", "a", "c", "i", "l", "i", "t", "i", "e", "s">>,
           <<"c", "o", "n", "s", "t", "r", "u", "c", "t", "i", "o", "n">>,
           <<"r", "e", "p", "a", "i", "r">>,
           <<"r", "e", "n", "o", "v", "a", "t", "i", "o", "n">>,
           <<"d", "e", "s", "i", "g", "n", "-", "b", "u", "i", "l", "d">>>>],
      [topic |-> "Transportation",
       keywords |->
         <<<<"t", "r", "a", "n", "s", "p", "o", "r", "t", "a", "t", "i", "o", "n">>,
           <<"t", "r", "a", "n", "s", "i", "t">>,
           <<"t", "r", "a", "f", "f", "i", "c">>,
           <<"s", "i", "g", "n", "a", "l">>,
           <<"d", "a", "r", "t">>,
           <<"p", "e", "d", "e", "s", "t", "r", "i", "a", "n">>,
           <<"b", "i", "c", "y", "c", "l", "e">>,
           <<"b", "i", "k", "e">>,
           <<"p", "a", "r", "k", "i", "n", "g">>,
           <<"t", "x", "d", "o", "t">>,
           <<"h", "i", "g", "h", "w", "a", "y">>,
           <<"f", "r", "e", "e", "w", "a", "y">>>>]>>
\* NAME_ALIASES.get(name, name)
NAME_ALIASES_get(name) ==
    IF \E i \in 1..Len(NAME_ALIASES) : NAME_ALIASES[i][1] = name
    THEN NAME_ALIASES[CHOOSE i \in 1..Len(NAME_ALIASES) :
                          NAME_ALIASES[i][1] = name][2]
    ELSE name

\* " ".join(s.split()): the words of s, one space between them
RECURSIVE join_split(_)
join_split(s) ==
    LET t == strip(s)
    IN  IF \E i \in 1..Len(t) : t[i] \in Whitespace
        THEN LET k == CHOOSE i \in 1..Len(t) :
                          /\ t[i] \in Whitespace
                          /\ \A j \in 1..(i - 1) : t[j] \notin Whitespace
             IN  SubSeq(t, 1, k - 1) \o <<" ">>
                     \o join_split(SubSeq(t, k + 1, Len(t)))
        ELSE t

\* a slip that looks the name up before the whitespace is collapsed
normalize_name_lookup_first(name) ==
    join_split(NAME_ALIASES_get(strip(name)))

normalize_name(name) == NAME_ALIASES_get(join_split(strip(name)))

\* classify_section takes the texts upper-cased, not trimmed
classify_section(ms_raw, title_raw, agenda_info) ==
    LET ms == upper(ms_raw)
        t == upper(title_raw)
    IN  IF Contains(ms, <<"H", "E", "A", "R", "I", "N", "G">>) \/ Contains(t, <<"H", "E", "A", "R", "I", "N", "G">>)
           \/ Contains(t, <<"P", "U", "B", "L", "I", "C", " ", "H", "E", "A", "R", "I", "N", "G">>)
        THEN "PUBLIC_HEARING"
        ELSE IF Contains(ms, <<"C", "O", "N", "S", "E", "N", "T">>) \/ Contains(ms, <<"C", "O", "N", "S", "E", "N", "T", " ", "A", "G", "E", "N", "D", "A">>)
        THEN "CONSENT"
        ELSE IF Contains(ms, <<"I", "N", "D", "I", "V", "I", "D", "U", "A", "L">>) THEN "GENERAL"
        ELSE IF Contains(t, <<"Z", "O", "N", "I", "N", "G">>) THEN "PUBLIC_HEARING"
        ELSE "CONSENT"

\* the topics whose keywords occur in the title, in the table's order
RECURSIVE topic_matches(_, _)
topic_matches(title_lower, i) ==
    IF i > Len(TOPIC_KEYWORDS) THEN <<>>
    ELSE (IF ContainsAny(title_lower, TOPIC_KEYWORDS[i].keywords)
          THEN <<TOPIC_KEYWORDS[i].topic>>
          ELSE <<>>) \o topic_matches(title_lower, i + 1)

\* a slip that returns every matching category
classify_topics_all_matches(title_raw) ==
    IF title_raw = <<>> THEN <<"General">>
    ELSE LET matches == topic_matches(lower(title_raw), 1)
         IN  IF matches = <<>> THEN <<"General">> ELSE matches

classify_topics(title_raw) ==
    IF title_raw = <<>> THEN <<"General">>
    ELSE LET matches == topic_matches(lower(title_raw), 1)
         IN  IF matches = <<>> THEN <<"General">> ELSE Prefix(matches, 3)

\* s.startswith(p)
startswith(s, p) == Len(s) >= Len(p) /\ SubSeq(s, 1, Len(p)) = p

\* a slip that tests "read and filed" before the first readings
classify_non_voted_item_filed_first(title_raw, mt_raw, ms_raw, fa_raw) ==
    LET t_upper == upper(strip(title_raw))
        ms == upper(strip(ms_raw))
        fa == upper(strip(fa_raw))
        kind(c, i, d) == [category |-> c, importance |-> i, display_type |-> d]
    IN  IF \E i \in 1..Len(SECTION_HEADERS) :
               \/ t_upper = SECTION_HEADERS[i]
               \/ startswith(t_upper, SECTION_HEADERS[i] \o <<"\n">>)
        THEN kind("committee_header", "medium", "section_header")
        ELSE IF Contains(fa, <<"R", "E", "A", "D">>) /\ Contains(fa, <<"F", "I", "L", "E", "D">>)
        THEN kind("read_and_filed", "low", "procedural")
        ELSE IF Contains(fa, <<"F", "I", "R", "S", "T">>) /\ Contains(fa, <<"R", "E", "A", "D">>)
        THEN kind("first_reading", "high", "legislation")
        ELSE IF Contains(t_upper, <<"F", "I", "R", "S", "T", " ", "R", "E", "A", "D", "I", "N", "G">>)
        THEN kind("first_reading", "high", "legislation")
        ELSE IF Contains(fa, <<"A", "D", "O", "P", "T", "E", "D">>) \/ Contains(ms, <<"A", "P", "P", "R", "O", "V", "E", "D">>)
        THEN kind("adopted_no_vote", "medium", "legislation")
        ELSE IF Contains(fa, <<"C", "O", "R", "R", "E", "C", "T">>) \/ Contains(ms, <<"C", "O", "R", "R", "E", "C", "T">>)
        THEN kind("corrections", "low", "procedural")
        ELSE IF Contains(t_upper, <<"H", "E", "A", "R", "I", "N", "G">>)
        THEN kind("other", "medium", "legislation")
        ELSE kind("other", "low", "procedural")

\* (category, importance, display_type) of a non-voted item
classify_non_voted_item(title_raw, mt_raw, ms_raw, fa_raw) ==
    LET t_upper == upper(strip(title_raw))
        ms == upper(strip(ms_raw))
        fa == upper(strip(fa_raw))
        kind(c, i, d) == [category |-> c, importance |-> i, display_type |-> d]
    IN  IF \E i \in 1..Len(SECTION_HEADERS) :
               \/ t_upper = SECTION_HEADERS[i]
               \/ startswith(t_upper, SECTION_HEADERS[i] \o <<"\n">>)
        THEN kind("committee_header", "medium", "section_header")
        ELSE IF Contains(fa, <<"F", "I", "R", "S", "T">>) /\ Contains(fa, <<"R", "E", "A", "D">>)
        THEN kind("first_reading", "high", "legislation")
        ELSE IF Contains(t_upper, <<"F", "I", "R", "S", "T", " ", "R", "E", "A", "D", "I", "N", "G">>)
        THEN kind("first_reading", "high", "legislation")
        ELSE IF Contains(fa, <<"R", "E", "A", "D">>) /\ Contains(fa, <<"F", "I", "L", "E", "D">>)
        THEN kind("read_and_filed", "low", "procedural")
        ELSE IF Contains(fa, <<"A", "D", "O", "P", "T", "E", "D">>) \/ Contains(ms, <<"A", "P", "P", "R", "O", "V", "E", "D">>)
        THEN kind("adopted_no_vote", "medium", "legislation")
        ELSE IF Contains(fa, <<"C", "O", "R", "R", "E", "C", "T">>) \/ Contains(ms, <<"C", "O", "R", "R", "E", "C", "T">>)
        THEN kind("corrections", "low", "procedural")
        ELSE IF Contains(t_upper, <<"H", "E", "A", "R", "I", "N", "G">>)
        THEN kind("other", "medium", "legislation")
        ELSE kind("other", "low", "procedural")

(***************************************************************************)
(* build_site.py: DallasSiteBuilder._load_all_csv_data                     *)
(*                                                                         *)
(* A CSV row is a record of its cells; cells holds the member columns in   *)
(* the order of member_cols.  A value the code sets to None by "x or None" *)
(* can never be the empty string, so None is written << >> there; an item  *)
(* without a vote has vote = << >>.  The key csv_row of an agenda item is  *)
(* history: the position of the row the item was built from.               *)
(***************************************************************************)

\* the keys of self.members, as _load_members left them
members == {<<"A", "d", "a", "m", " ", "B", "a", "z", "a", "l", "d", "u", "a">>, <<"T", "e", "n", "n", "e", "l", "l", " ", "A", "t", "k", "i", "n", "s">>}

\* the header cells after attachment_links; the last is not on the roster
member_cols == <<<<"A", "d", "a", "m", " ", " ", "B", "a", "z", "a", "l", "d", "u", "a">>, <<"T", "e", "n", "n", "e", "l", " ", "A", "t", "k", "i", "n", "s">>, <<"P", "a", "t", " ", "R", "o", "e">>>>

\* a slip that takes a vote from any member column, on the roster or not
RECURSIVE collect_any_column(_, _, _)
collect_any_column(row, i, member_votes) ==
    IF i > Len(member_cols) THEN member_votes
    ELSE LET canonical == normalize_name(member_cols[i])
             choice == map_vote(strip(row.cells[i]))
         IN  collect_any_column(row, i + 1,
                 IF choice # "None"
                 THEN DictPut(member_votes, canonical, choice)
                 ELSE member_votes)

\* member_votes after the columns from i on
RECURSIVE collect_member_votes(_, _, _)
collect_member_votes(row, i, member_votes) ==
    IF i > Len(member_cols) THEN member_votes
    ELSE LET canonical == normalize_name(member_cols[i])
             choice == map_vote(strip(row.cells[i]))
         IN  collect_member_votes(row, i + 1,
                 IF choice # "None" /\ canonical \in members
                 THEN DictPut(member_votes, canonical, choice)
                 ELSE member_votes)

\* x or None
or_None(x) == IF x = <<>> THEN <<>> ELSE x

\* the meeting dict created for the first row of a meeting
new_meeting(id, event_id, date, row) ==
    [id |-> id,
     event_id |-> event_id,
     meeting_date |-> date,
     meeting_type |-> "regular",
     legistar_url |-> <<>>,
     agenda_url |-> or_None(row.agenda_link),
     minutes_url |-> or_None(row.minutes_link),
     video_url |-> or_None(row.video_link),
     vote_count |-> 0,
     non_voted_count |-> 0,
     first_reading_count |-> 0,
     agenda_item_count |-> 0,
     agenda_items |-> <<>>]

\* a link is taken from the row when the meeting has none yet
update_links(meeting, row) ==
    LET pick(have, cell) ==
            IF strip(cell) # <<>> /\ have = <<>> THEN strip(cell) ELSE have
    IN  [meeting EXCEPT
            !.agenda_url = pick(@, row.agenda_link),
            !.minutes_url = pick(@, row.minutes_link),
            !.video_url = pick(@, row.video_link)]

\* sum(1 for v in member_votes.values() if v == choice)
tally(member_votes, choice) ==
    Cardinality({n \in DOMAIN member_votes : member_votes[n] = choice})

vote_record_of(vote_id, row, title, date, item_num, seq, meeting_id, votes_of) ==
    [id |-> vote_id,
     outcome |-> derive_outcome(row.passed, row.socrata_final_action,
                                row.matter_status),
     ayes |-> tally(votes_of, "AYE"),
     noes |-> tally(votes_of, "NAY"),
     abstain |-> tally(votes_of, "ABSTAIN"),
     absent |-> tally(votes_of, "ABSENT"),
     item_number |-> IF rstrip_dot(item_num) # <<>>
                     THEN rstrip_dot(item_num) ELSE seq,
     section |-> classify_section(row.matter_status, title,
                                  row.socrata_agenda_info),
     title |-> title,
     description |-> strip(row.matter_title),
     meeting_date |-> date,
     meeting_id |-> meeting_id,
     meeting_type |-> "regular",
     topics |-> classify_topics(title),
     matter_file |-> or_None(strip(row.matter_file)),
     matter_type |-> or_None(strip(row.matter_type)),
     member_votes |-> votes_of]

voted_agenda_item(agenda_sequence, vote_record, at) ==
    [agenda_sequence |-> agenda_sequence,
     item_type |-> "voted",
     item_number |-> vote_record.item_number,
     title |-> vote_record.title,
     section |-> vote_record.section,
     matter_file |-> vote_record.matter_file,
     matter_type |-> vote_record.matter_type,
     topics |-> vote_record.topics,
     vote |-> [id |-> vote_record.id,
               outcome |-> vote_record.outcome,
               ayes |-> vote_record.ayes,
               noes |-> vote_record.noes,
               abstain |-> vote_record.abstain,
               absent |-> vote_record.absent],
     csv_row |-> at]

non_voted_agenda_item(agenda_sequence, row, title, at) ==
    LET fa == strip(row.socrata_final_action)
        class == classify_non_voted_item(title, row.matter_type,
                                         row.matter_status, fa)
    IN  [agenda_sequence |-> agenda_sequence,
         item_type |-> "non_voted",
         category |-> class.category,
         importance |-> class.importance,
         display_type |-> class.display_type,
         title |-> title,
         matter_file |-> or_None(strip(row.matter_file)),
         matter_type |-> or_None(strip(row.matter_type)),
         action |-> or_None(fa),
         description |-> or_None(strip(row.matter_title)),
         topics |-> IF class.importance = "high"
                    THEN classify_topics(title) ELSE <<>>,
         vote |-> <<>>,
         csv_row |-> at]

\* the entry of self.all_items for a non-voted item
tracked_item(agenda_item, eid, date, meeting_id) ==
    [event_item_id |-> eid,
     meeting_date |-> date,
     meeting_id |-> meeting_id,
     agenda_sequence |-> agenda_item.agenda_sequence,
     title |-> agenda_item.title,
     matter_file |-> agenda_item.matter_file,
     matter_type |-> agenda_item.matter_type,
     action |-> agenda_item.action,
     category |-> agenda_item.category,
     topics |-> classify_topics(agenda_item.title),
     description_preview |-> Prefix(agenda_item.title, 200)]

\* the meeting after a voted item is added to its agenda
with_voted_item(meeting, agenda_item) ==
    [meeting EXCEPT
        !.vote_count = @ + 1,
        !.agenda_items = Append(@, agenda_item)]

\* a slip that leaves section headers out of the non-voted count
with_non_voted_item_but_headers(meeting, agenda_item) ==
    [meeting EXCEPT
        !.non_voted_count =
            IF agenda_item.category = "committee_header" THEN @ ELSE @ + 1,
        !.first_reading_count =
            IF agenda_item.category = "first_reading" THEN @ + 1 ELSE @,
        !.agenda_items = Append(@, agenda_item)]

\* the meeting after a non-voted item is added to its agenda
with_non_voted_item(meeting, agenda_item) ==
    [meeting EXCEPT
        !.non_voted_count = @ + 1,
        !.first_reading_count =
            IF agenda_item.category = "first_reading" THEN @ + 1 ELSE @,
        !.agenda_items = Append(@, agenda_item)]

\* key=lambda x: x["agenda_sequence"]
by_agenda_sequence(a, b) == a.agenda_sequence < b.agenda_sequence

\* key=lambda m: m["meeting_date"], reverse=True
by_meeting_date_reversed(a, b) == StrLess(b.meeting_date, a.meeting_date)

\* key=lambda v: (v["meeting_date"], v["item_number"]), reverse=True
by_date_and_number_reversed(a, b) ==
    \/ StrLess(b.meeting_date, a.meeting_date)
    \/ /\ b.meeting_date = a.meeting_date
       /\ StrLess(b.item_number, a.item_number)

\* a sorts strictly in front of b in the named sort
precedes(order, a, b) ==
    CASE order = "agenda_sequence" -> by_agenda_sequence(a, b)
      [] order = "meeting_date_reversed" -> by_meeting_date_reversed(a, b)
      [] order = "date_and_number_reversed" ->
             by_date_and_number_reversed(a, b)

\* list.sort / sorted: x goes in front of the first element it must precede,
\* so equal keys keep the order they came in
RECURSIVE stable_insert(_, _, _)
stable_insert(sorted, x, order) ==
    IF sorted = <<>> THEN <<x>>
    ELSE IF precedes(order, x, Head(sorted)) THEN <<x>> \o sorted
    ELSE <<Head(sorted)>> \o stable_insert(Tail(sorted), x, order)

RECURSIVE stable_sort(_, _)
stable_sort(items, order) ==
    IF items = <<>> THEN <<>>
    ELSE stable_insert(
             stable_sort(SubSeq(items, 1, Len(items) - 1), order),
             items[Len(items)], order)

(***************************************************************************)
(* _load_all_csv_data over the rows of one Votes CSV                       *)
(***************************************************************************)

MaxRows == 3        \* rows in the CSV

Row(event_id, date, eid, num, seq, title, passed, fa, link, cells) ==
    [event_id |-> event_id,
     event_date |-> date,
     event_item_id |-> eid,
     agenda_number |-> num,
     agenda_sequence |-> seq,
     title |-> title,
     matter_file |-> <<>>,
     matter_type |-> <<"O", "r", "d", "i", "n", "a", "n", "c", "e">>,
     matter_status |-> <<>>,
     matter_title |-> <<>>,
     passed |-> passed,
     socrata_agenda_info |-> <<>>,
     socrata_final_action |-> fa,
     agenda_link |-> link,
     minutes_link |-> <<>>,
     video_link |-> <<>>,
     cells |-> cells]

\* Rows of two Legistar meetings and of a Socrata-only meeting on the date
\* of the first: voted items; a section header; a first reading; a second
\* row of an item already written; an item whose only vote is in a column
\* that is not on the roster; an item whose only cell is an unknown code;
\* a row without a date and a row without a title.
RowPool ==
    {Row(<<"9", "0", "0", "1">>, D1, <<"1", "0", "1">>, <<"1", ".">>, <<"2">>, <<"Z", "o", "n", "i", "n", "g", " ", "c", "a", "s", "e">>,
         <<"1">>, <<"A", "P", "P", "R", "O", "V", "E", "D">>, <<>>, <<YES, NO, <<>>>>),
     Row(<<"9", "0", "0", "1">>, D1, <<"1", "0", "2">>, <<>>, <<"1">>, <<"C", "O", "N", "S", "E", "N", "T", " ", "A", "G", "E", "N", "D", "A">>,
         <<>>, <<>>, <<" ", "a", ".", "p", "d", "f">>, <<<<>>, <<>>, <<>>>>),
     Row(<<"9", "0", "0", "1">>, D1, <<"1", "0", "3">>, <<"3", ".">>, <<>>, <<"O", "r", "d", "i", "n", "a", "n", "c", "e", ",", " ", "f", "i", "r", "s", "t", " ", "r", "e", "a", "d", "i", "n", "g">>,
         <<>>, <<>>, <<"b", ".", "p", "d", "f">>, <<<<"N", "/", "A">>, <<"N", "/", "A">>, <<>>>>),
     Row(<<"9", "0", "0", "1">>, D1, <<"1", "0", "1">>, <<"1", ".">>, <<"2">>, <<"Z", "o", "n", "i", "n", "g", " ", "c", "a", "s", "e">>,
         <<>>, <<>>, <<>>, <<<<>>, <<>>, <<>>>>),
     Row(<<>>, D1, <<>>, <<"1", "2">>, <<>>, <<"P", "l", "a", "t">>,
         <<"0">>, <<"D", "E", "N", "I", "E", "D">>, <<>>, <<<<>>, <<" ", "a", "b", "s", "t">>, YES>>),
     Row(<<>>, D1, <<>>, <<"7">>, <<>>, <<"B", "u", "d", "g", "e", "t">>,
         <<>>, <<"A", "P", "P", "R", "O", "V", "E", "D">>, <<>>, <<<<>>, <<>>, YES>>),
     Row(<<"9", "0", "0", "2">>, D2, <<"2", "0", "1">>, <<"5", ".">>, <<"1">>, <<"H", "e", "a", "r", "i", "n", "g">>,
         <<>>, <<>>, <<>>, <<<<"P", "R", "E", "S", "E", "N", "T">>, <<>>, <<>>>>),
     Row(<<"9", "0", "0", "2">>, <<" ", " ">>, <<"2", "0", "2">>, <<"6", ".">>, <<"2">>, <<"P", "l", "a", "t">>,
         <<"1">>, <<>>, <<>>, <<YES, YES, <<>>>>),
     Row(<<"9", "0", "0", "2">>, D2, <<"2", "0", "3">>, <<"7", ".">>, <<"3">>, <<" ">>,
         <<"1">>, <<>>, <<>>, <<YES, YES, <<>>>>)}

InitLoad ==
    /\ pc = "start"
    /\ rows \in BoundedSeq(RowPool, MaxRows)
    /\ cursor = 1
    /\ meetings_by_key = <<>>
    /\ seen_items = {}
    /\ builder_votes = <<>>
    /\ builder_all_items = <<>>
    /\ vote_id_counter = 0
    /\ meeting_id_counter = 0
    /\ meetings = <<>>
    /\ NormalizeIdle /\ CorrelateIdle /\ VoteIdle /\ OutcomeIdle
    /\ AggregateIdle /\ CallIdle /\ RerunIdle

\* the body of "for row in reader"
LoadRow ==
    /\ pc = "start"
    /\ cursor <= Len(rows)
    /\ cursor' = cursor + 1
    /\ LET row == rows[cursor]
           date == strip(row.event_date)
           event_id == strip(row.event_id)
           seq == strip(row.agenda_sequence)
           item_num == strip(row.agenda_number)
           title == strip(row.title)
           eid == strip(row.event_item_id)
           item_key ==
               <<date, IF eid # <<>> THEN eid
                       ELSE seq \o <<"_">> \o item_num \o <<"_">>
                                \o Prefix(title, 50)>>
       IN  IF date = <<>> \/ title = <<>> \/ item_key \in seen_items
           THEN UNCHANGED <<meetings_by_key, seen_items, builder_votes,
                            builder_all_items, vote_id_counter,
                            meeting_id_counter>>
           ELSE
             LET meeting_key == <<event_id, date>>
                 is_new == meeting_key \notin DOMAIN meetings_by_key
                 created ==
                     IF is_new
                     THEN new_meeting(meeting_id_counter + 1, event_id, date,
                                      row)
                     ELSE meetings_by_key[meeting_key]
                 linked == update_links(created, row)
                 member_votes == collect_member_votes(row, 1, EmptyDict)
                 has_votes == Cardinality(DOMAIN member_votes) > 0
                 meeting == [linked EXCEPT !.agenda_item_count = @ + 1]
                 agenda_sequence ==
                     IF isdigit(seq) THEN int(seq)
                     ELSE meeting.agenda_item_count - 1
                 vote_record ==
                     vote_record_of(vote_id_counter + 1, row, title, date,
                                    item_num, seq, meeting.id, member_votes)
                 agenda_item ==
                     non_voted_agenda_item(agenda_sequence, row, title,
                                           cursor)
             IN  /\ seen_items' = seen_items \cup {item_key}
                 /\ meeting_id_counter' =
                        IF is_new THEN meeting_id_counter + 1
                        ELSE meeting_id_counter
                 /\ IF has_votes
                    THEN /\ vote_id_counter' = vote_id_counter + 1
                         /\ builder_votes' = Append(builder_votes, vote_record)
                         /\ meetings_by_key' =
                                DictPut(meetings_by_key, meeting_key,
                                    with_voted_item(meeting,
                                        voted_agenda_item(agenda_sequence,
                                            vote_record, cursor)))
                         /\ UNCHANGED builder_all_items
                    ELSE /\ meetings_by_key' =
                                DictPut(meetings_by_key, meeting_key,
                                    with_non_voted_item(meeting, agenda_item))
                         /\ builder_all_items' =
                                IF agenda_item.category # "committee_header"
                                THEN Append(builder_all_items,
                                         tracked_item(agenda_item, eid, date,
                                                      meeting.id))
                                ELSE builder_all_items
                         /\ UNCHANGED <<vote_id_counter, builder_votes>>
    /\ UNCHANGED <<pc, rows, meetings, normalize_vars, correlate_vars,
                   vote_vars, outcome_vars, aggregate_vars, call_vars, rerun_vars>>

\* meetings_by_key.values(): the meetings in the order they were created
meetings_in_order(by_key) ==
    [i \in 1..Cardinality(DOMAIN by_key) |->
        by_key[CHOOSE k \in DOMAIN by_key : by_key[k].id = i]]

\* the three sorts after the last row
Finish ==
    /\ pc = "start"
    /\ cursor > Len(rows)
    /\ LET sorted_by_key ==
               [k \in DOMAIN meetings_by_key |->
                   [meetings_by_key[k] EXCEPT
                       !.agenda_items =
                           stable_sort(@, "agenda_sequence")]]
       IN  /\ meetings_by_key' = sorted_by_key
           /\ meetings' = stable_sort(meetings_in_order(sorted_by_key),
                                      "meeting_date_reversed")
    /\ builder_votes' = stable_sort(builder_votes,
                                "date_and_number_reversed")
    /\ pc' = "done"
    /\ UNCHANGED <<rows, cursor, seen_items, builder_all_items,
                   vote_id_counter, meeting_id_counter, normalize_vars,
                   correlate_vars, vote_vars, outcome_vars, aggregate_vars,
                   call_vars, rerun_vars>>

NextLoad == LoadRow \/ Finish

SpecLoad == InitLoad /\ [][NextLoad]_vars

\* every meeting dict of the builder: by key while loading, and the list
AllMeetings ==
    {meetings_by_key[k] : k \in DOMAIN meetings_by_key}
        \cup {meetings[i] : i \in 1..Len(meetings)}

\* the values derive_outcome returns
Outcomes == {"PASS", "FAIL", "CONTINUED", "WITHDRAWN", "TABLED"}

\* the categories classify_non_voted_item returns
Categories ==
    {"committee_header", "first_reading", "read_and_filed",
     "adopted_no_vote", "corrections", "other"}

\* a cell of the row holds a recognized vote of a member on the roster
HasMemberVote(row) ==
    \E i \in 1..Len(member_cols) :
        /\ map_vote(strip(row.cells[i])) # "None"
        /\ normalize_name(member_cols[i]) \in members

\* some cell of the row is not blank
HasFilledCell(row) == \E i \in 1..Len(member_cols) : strip(row.cells[i]) # <<>>

\* C9: every agenda item of every meeting is either voted or non_voted; it
\* is voted exactly when the member-vote mapping built from its row is not
\* empty, and then it has a vote with an outcome, a vote record that holds
\* the mapping, and no category; otherwise it has a category and no vote.
C9_VotedIffMemberVotes ==
    \A m \in AllMeetings :
        \A i \in 1..Len(m.agenda_items) :
            LET item == m.agenda_items[i]
            IN  /\ item.item_type \in {"voted", "non_voted"}
                /\ (item.item_type = "voted")
                       <=> HasMemberVote(rows[item.csv_row])
                /\ item.item_type = "voted" =>
                       /\ item.vote # <<>>
                       /\ item.vote.outcome \in Outcomes
                       /\ "category" \notin DOMAIN item
                       /\ \E v \in 1..Len(builder_votes) :
                              /\ builder_votes[v].id = item.vote.id
                              /\ DOMAIN builder_votes[v].member_votes # {}
                /\ item.item_type = "non_voted" =>
                       /\ "category" \in DOMAIN item
                       /\ item.category \in Categories
                       /\ item.vote = <<>>

\* the load has finished with a meeting that has a voted item and a
\* non-voted item whose row had a vote in a column that is not on the roster
C9_Witness ==
    /\ pc = "done"
    /\ \E m \in AllMeetings :
           \E i, j \in 1..Len(m.agenda_items) :
               /\ m.agenda_items[i].item_type = "voted"
               /\ m.agenda_items[j].item_type = "non_voted"
               /\ HasFilledCell(rows[m.agenda_items[j].csv_row])

\* the number of items of the meeting of one kind
CountType(m, type) ==
    Cardinality({i \in 1..Len(m.agenda_items) :
                    m.agenda_items[i].item_type = type})

CountFirstReading(m) ==
    Cardinality({i \in 1..Len(m.agenda_items) :
                    /\ "category" \in DOMAIN m.agenda_items[i]
                    /\ m.agenda_items[i].category = "first_reading"})

\* C10: the counters of every meeting equal the sizes of the parts of its
\* agenda: agenda_item_count the number of items, vote_count the voted
\* items, non_voted_count the non-voted items, first_reading_count the
\* items of category first_reading, and voted plus non-voted is the total.
C10_CountersMatchAgenda ==
    \A m \in AllMeetings :
        /\ m.agenda_item_count = Len(m.agenda_items)
        /\ m.vote_count = CountType(m, "voted")
        /\ m.non_voted_count = CountType(m, "non_voted")
        /\ m.first_reading_count = CountFirstReading(m)
        /\ m.vote_count + m.non_voted_count = m.agenda_item_count

\* three rows were read, one of them dropped, and the meeting counts a
\* voted item and a first reading
C10_Witness ==
    /\ pc = "done"
    /\ Len(rows) = 3
    /\ \E i \in 1..Len(meetings) :
           /\ meetings[i].vote_count = 1
           /\ meetings[i].first_reading_count = 1
           /\ meetings[i].agenda_item_count = 2

(***************************************************************************)
(* build_site.py: the member roster and DallasSiteBuilder._assign_member_ids*)
(*                                                                         *)
(* self.members is a dict in insertion order; it is written as the         *)
(* sequence of its values, each with its key in full_name.  Of a member    *)
(* dict the keys the modelled code reads are kept.                         *)
(***************************************************************************)

\* s.split(): the words of s
RECURSIVE split(_)
split(s) ==
    LET t == strip(s)
    IN  IF t = <<>> THEN <<>>
        ELSE IF \E i \in 1..Len(t) : t[i] \in Whitespace
        THEN LET k == CHOOSE i \in 1..Len(t) :
                          /\ t[i] \in Whitespace
                          /\ \A j \in 1..(i - 1) : t[j] \notin Whitespace
             IN  <<SubSeq(t, 1, k - 1)>> \o split(SubSeq(t, k + 1, Len(t)))
        ELSE <<t>>

\* SHORT_NAME_OVERRIDES.get(name, name.split()[-1])
short_name_of(name) ==
    IF name = <<"C", "a", "s", "e", "y", " ", "T", "h", "o", "m", "a", "s", " ", "I", "I">> THEN <<"T", "h", "o", "m", "a", "s">>
    ELSE split(name)[Len(split(name))]

\* the member dict _load_members creates for a name
member_dict(name, first_seen) ==
    [full_name |-> name,
     short_name |-> short_name_of(name),
     first_seen |-> first_seen]

\* self.members.keys()
member_names(md) == {md[i].full_name : i \in 1..Len(md)}

\* self.members[name]
member_get(md, name) == md[CHOOSE i \in 1..Len(md) : md[i].full_name = name]

\* a slip that sorts the members by first_seen alone
first_seen_less(a, b) == StrLess(a.first_seen, b.first_seen)

\* (first_seen, name) of a is less than that of b, as tuples compare
first_seen_and_name_less(a, b) ==
    \/ StrLess(a.first_seen, b.first_seen)
    \/ /\ a.first_seen = b.first_seen
       /\ StrLess(a.full_name, b.full_name)

\* sorted(self.members.keys(), key=lambda n: (first_seen, n)); sorted is
\* stable, a member goes in front of the first one it is less than
RECURSIVE insert_member(_, _)
insert_member(sorted, x) ==
    IF sorted = <<>> THEN <<x>>
    ELSE IF first_seen_and_name_less(x, Head(sorted)) THEN <<x>> \o sorted
    ELSE <<Head(sorted)>> \o insert_member(Tail(sorted), x)

RECURSIVE sorted_members(_)
sorted_members(md) ==
    IF md = <<>> THEN <<>>
    ELSE insert_member(sorted_members(SubSeq(md, 1, Len(md) - 1)),
                       md[Len(md)])

\* member_id_map after enumerate(sorted_members, 1)
assigned_ids(md) ==
    LET order == sorted_members(md)
    IN  [name \in member_names(md) |->
            CHOOSE i \in 1..Len(order) : order[i].full_name = name]

\* short_counts[short]: the names that have the short name
short_counts(md, short) ==
    {md[i].full_name : i \in {j \in 1..Len(md) : md[j].short_name = short}}

\* a slip that leaves the first member of a shared short name as it was
disambiguated_all_but_first(md) ==
    [i \in 1..Len(md) |->
        IF \E j \in 1..(i - 1) : md[j].short_name = md[i].short_name
        THEN [md[i] EXCEPT
                 !.short_name =
                     <<split(md[i].full_name)[1][1]>> \o <<".", " ">> \o @]
        ELSE md[i]]

\* the second pass: a short name that several members have gets the first
\* initial of the member in front
disambiguated(md) ==
    [i \in 1..Len(md) |->
        IF Cardinality(short_counts(md, md[i].short_name)) > 1
        THEN [md[i] EXCEPT
                 !.short_name =
                     <<split(md[i].full_name)[1][1]>> \o <<".", " ">> \o @]
        ELSE md[i]]

(***************************************************************************)
(* _assign_member_ids on a roster as _load_members leaves it               *)
(***************************************************************************)

MaxMembers == 3     \* members on the roster

\* (name, first_seen) of the members: two share a first date, one has
\* none, three share a last name and two of them the initial as well
MemberPool ==
    {member_dict(<<"B", "o", " ", "L", "e", "e">>, D1),
     member_dict(<<"A", "n", "n", " ", "L", "e", "e">>, D1),
     member_dict(<<"A", "l", " ", "L", "e", "e">>, <<>>),
     member_dict(<<"A", "n", "n", " ", "R", "o", "e">>, D2),
     member_dict(<<"C", "a", "s", "e", "y", " ", "T", "h", "o", "m", "a", "s", " ", "I", "I">>, D2)}

\* the rosters: members in any insertion order, a name once
Rosters ==
    {md \in BoundedSeq(MemberPool, MaxMembers) :
        \A i, j \in 1..Len(md) : i # j => md[i].full_name # md[j].full_name}

InitMemberIds ==
    /\ pc = "start"
    /\ member_data \in Rosters
    /\ current_members = {}
    /\ member_id_map = <<>>
    /\ stats_name = <<>>
    /\ stats = <<>>
    /\ dissent_denom = 0
    /\ alignment = <<>>
    /\ NormalizeIdle /\ CorrelateIdle /\ VoteIdle /\ OutcomeIdle /\ LoadIdle
    /\ CallIdle /\ RerunIdle

AssignMemberIds ==
    /\ pc = "start"
    /\ member_id_map' = assigned_ids(member_data)
    /\ member_data' = disambiguated(member_data)
    /\ pc' = "done"
    /\ UNCHANGED <<current_members, stats_name, stats, dissent_denom,
                   alignment,
                   normalize_vars, correlate_vars, vote_vars, outcome_vars,
                   load_vars, call_vars, rerun_vars>>

NextMemberIds == AssignMemberIds

SpecMemberIds == InitMemberIds /\ [][NextMemberIds]_vars

\* C15: the N members get the ids 1..N, each once, and the ids follow the
\* order of (first_seen, canonical name): id(a) < id(b) exactly when the
\* pair of a is less than the pair of b, whatever order the members were
\* loaded in.
C15_IdsFollowFirstSeenAndName ==
    pc = "done" =>
        /\ DOMAIN member_id_map = member_names(member_data)
        /\ {member_id_map[n] : n \in DOMAIN member_id_map}
               = 1..Len(member_data)
        /\ \A i, j \in 1..Len(member_data) :
               LET a == member_data[i]
                   b == member_data[j]
               IN  (member_id_map[a.full_name] < member_id_map[b.full_name])
                       <=> \/ StrLess(a.first_seen, b.first_seen)
                           \/ /\ a.first_seen = b.first_seen
                              /\ StrLess(a.full_name, b.full_name)

\* ids were given to three members, two with one first_seen date, loaded
\* with the greater name in front
C15_Witness ==
    /\ pc = "done"
    /\ Len(member_data) = 3
    /\ \E i, j \in 1..Len(member_data) :
           /\ i < j
           /\ member_data[i].first_seen = member_data[j].first_seen
           /\ StrLess(member_data[j].full_name, member_data[i].full_name)
           /\ member_id_map[member_data[j].full_name]
                  < member_id_map[member_data[i].full_name]

(***************************************************************************)
(* build_site.py: DallasSiteBuilder._compute_member_stats                  *)
(*                                                                         *)
(* A percentage rounded to one decimal is written as the number of tenths: *)
(* 33.3 is 333 and 100.0 is 1000.                                          *)
(***************************************************************************)

\* vote["member_votes"].get(name)
mv_get(vote, name) ==
    IF name \in DOMAIN vote.member_votes THEN vote.member_votes[name]
    ELSE "None"

\* abs(a - b)
abs_diff(a, b) == IF a < b THEN b - a ELSE a - b

\* round(n / d * 100, 1) in tenths, for d > 0: the nearest tenth, a half
\* going to the even one
round_rate(n, d) ==
    LET q == (1000 * n) \div d
        r == (1000 * n) % d
    IN  IF 2 * r < d THEN q
        ELSE IF 2 * r > d THEN q + 1
        ELSE IF q % 2 = 0 THEN q ELSE q + 1

\* the counters before the loop
zero_counts ==
    [total |-> 0, aye_count |-> 0, nay_count |-> 0, abstain_count |-> 0,
     absent_count |-> 0, recusal_count |-> 0, votes_on_losing_side |-> 0,
     close_vote_dissents |-> 0]

\* a slip that counts a dissent as close whatever the margin
count_vote_any_margin(c, vote, mv) ==
    LET on_losing ==
            /\ vote.outcome \in {"PASS", "FAIL"}
            /\ \/ vote.outcome = "PASS" /\ mv = "NAY"
               \/ vote.outcome = "FAIL" /\ mv = "AYE"
    IN  [c EXCEPT
            !.total = @ + 1,
            !.aye_count = IF mv = "AYE" THEN @ + 1 ELSE @,
            !.nay_count = IF mv = "NAY" THEN @ + 1 ELSE @,
            !.abstain_count = IF mv = "ABSTAIN" THEN @ + 1 ELSE @,
            !.absent_count = IF mv = "ABSENT" THEN @ + 1 ELSE @,
            !.recusal_count = IF mv = "RECUSAL" THEN @ + 1 ELSE @,
            !.votes_on_losing_side = IF on_losing THEN @ + 1 ELSE @,
            !.close_vote_dissents = IF on_losing THEN @ + 1 ELSE @]

\* a slip that takes the side of the outcome for the losing side
count_vote_sides_swapped(c, vote, mv) ==
    LET on_losing ==
            /\ vote.outcome \in {"PASS", "FAIL"}
            /\ \/ vote.outcome = "PASS" /\ mv = "AYE"
               \/ vote.outcome = "FAIL" /\ mv = "NAY"
        margin == abs_diff(vote.ayes, vote.noes)
    IN  [c EXCEPT
            !.total = @ + 1,
            !.aye_count = IF mv = "AYE" THEN @ + 1 ELSE @,
            !.nay_count = IF mv = "NAY" THEN @ + 1 ELSE @,
            !.abstain_count = IF mv = "ABSTAIN" THEN @ + 1 ELSE @,
            !.absent_count = IF mv = "ABSENT" THEN @ + 1 ELSE @,
            !.recusal_count = IF mv = "RECUSAL" THEN @ + 1 ELSE @,
            !.votes_on_losing_side = IF on_losing THEN @ + 1 ELSE @,
            !.close_vote_dissents =
                IF on_losing /\ margin <= 2 THEN @ + 1 ELSE @]

\* the body of the loop for a vote the member is in, with choice mv
count_vote(c, vote, mv) ==
    LET on_losing ==
            /\ vote.outcome \in {"PASS", "FAIL"}
            /\ \/ vote.outcome = "PASS" /\ mv = "NAY"
               \/ vote.outcome = "FAIL" /\ mv = "AYE"
        margin == abs_diff(vote.ayes, vote.noes)
    IN  [c EXCEPT
            !.total = @ + 1,
            !.aye_count = IF mv = "AYE" THEN @ + 1 ELSE @,
            !.nay_count = IF mv = "NAY" THEN @ + 1 ELSE @,
            !.abstain_count = IF mv = "ABSTAIN" THEN @ + 1 ELSE @,
            !.absent_count = IF mv = "ABSENT" THEN @ + 1 ELSE @,
            !.recusal_count = IF mv = "RECUSAL" THEN @ + 1 ELSE @,
            !.votes_on_losing_side = IF on_losing THEN @ + 1 ELSE @,
            !.close_vote_dissents =
                IF on_losing /\ margin <= 2 THEN @ + 1 ELSE @]

\* for vote in self.votes, from the i-th on
RECURSIVE count_votes(_, _, _, _)
count_votes(corpus, name, i, c) ==
    IF i > Len(corpus) THEN c
    ELSE count_votes(corpus, name, i + 1,
             IF mv_get(corpus[i], name) = "None" THEN c
             ELSE count_vote(c, corpus[i], mv_get(corpus[i], name)))

\* the votes the member is in whose outcome is neither PASS nor FAIL
special_outcomes(corpus, name) ==
    Cardinality({i \in 1..Len(corpus) :
                    /\ mv_get(corpus[i], name) # "None"
                    /\ corpus[i].outcome \notin {"PASS", "FAIL"}})

\* the local dissent_denom
dissent_denom_of(corpus, name) ==
    LET c == count_votes(corpus, name, 1, zero_counts)
        valid_votes == c.total - c.absent_count - c.abstain_count
        special == special_outcomes(corpus, name)
    IN  IF valid_votes > special THEN valid_votes - special ELSE 1

\* the dict _compute_member_stats returns
_compute_member_stats(corpus, name) ==
    LET c == count_votes(corpus, name, 1, zero_counts)
        denom == dissent_denom_of(corpus, name)
    IN  [total_votes |-> c.total,
         aye_count |-> c.aye_count,
         nay_count |-> c.nay_count,
         abstain_count |-> c.abstain_count,
         absent_count |-> c.absent_count,
         recusal_count |-> c.recusal_count,
         aye_percentage |->
             IF c.total # 0 THEN round_rate(c.aye_count, c.total) ELSE 0,
         participation_rate |->
             IF c.total # 0
             THEN round_rate(c.total - c.absent_count - c.abstain_count,
                             c.total)
             ELSE 0,
         dissent_rate |->
             IF denom # 0 THEN round_rate(c.votes_on_losing_side, denom)
             ELSE 0,
         votes_on_losing_side |-> c.votes_on_losing_side,
         votes_on_winning_side |->
             c.total - c.votes_on_losing_side - c.absent_count
                 - c.abstain_count - c.recusal_count,
         close_vote_dissents |-> c.close_vote_dissents]

(***************************************************************************)
(* build_site.py: DallasSiteBuilder._generate_alignment_json               *)
(***************************************************************************)

\* sorted(names) for a list of distinct strings
RECURSIVE sorted_strings(_)
sorted_strings(S) ==
    IF S = {} THEN <<>>
    ELSE LET least == CHOOSE x \in S : \A y \in S : ~StrLess(y, x)
         IN  <<least>> \o sorted_strings(S \ {least})

\* combinations(seq, 2): the pairs in the order of their positions
RECURSIVE combinations2(_)
combinations2(seq) ==
    IF Len(seq) < 2 THEN <<>>
    ELSE [j \in 1..(Len(seq) - 1) |-> <<seq[1], seq[j + 1]>>]
             \o combinations2(Tail(seq))

\* a slip that takes every vote the two members are both in as shared
both_participated_any_choice(v1, v2) == v1 # "None" /\ v2 # "None"

\* v1 in ("AYE", "NAY") and v2 in ("AYE", "NAY")
both_participated(v1, v2) == v1 \in {"AYE", "NAY"} /\ v2 \in {"AYE", "NAY"}

\* shared and agreements after the loop over self.votes, from the i-th on
RECURSIVE count_shared(_, _, _, _, _)
count_shared(corpus, m1, m2, i, c) ==
    IF i > Len(corpus) THEN c
    ELSE LET v1 == mv_get(corpus[i], m1)
             v2 == mv_get(corpus[i], m2)
         IN  count_shared(corpus, m1, m2, i + 1,
                 IF both_participated(v1, v2)
                 THEN [shared |-> c.shared + 1,
                       agreements |->
                           IF v1 = v2 THEN c.agreements + 1
                           ELSE c.agreements]
                 ELSE c)

\* the dict appended to pairs for two members with shared > 0
pair_dict(md, m1, m2, c) ==
    [member1 |-> member_get(md, m1).short_name,
     member2 |-> member_get(md, m2).short_name,
     shared_votes |-> c.shared,
     agreements |-> c.agreements,
     agreement_rate |-> round_rate(c.agreements, c.shared)]

\* pairs after the loop over the combinations from the k-th on
RECURSIVE collect_pairs(_, _, _, _)
collect_pairs(corpus, md, combos, k) ==
    IF k > Len(combos) THEN <<>>
    ELSE LET c == count_shared(corpus, combos[k][1], combos[k][2], 1,
                               [shared |-> 0, agreements |-> 0])
         IN  (IF c.shared > 0
              THEN <<pair_dict(md, combos[k][1], combos[k][2], c)>>
              ELSE <<>>) \o collect_pairs(corpus, md, combos, k + 1)

\* pairs.sort(key=lambda p: p["agreement_rate"]): stable
RECURSIVE insert_pair(_, _)
insert_pair(sorted, x) ==
    IF sorted = <<>> THEN <<x>>
    ELSE IF x.agreement_rate < Head(sorted).agreement_rate
    THEN <<x>> \o sorted
    ELSE <<Head(sorted)>> \o insert_pair(Tail(sorted), x)

RECURSIVE sort_pairs(_)
sort_pairs(pairs) ==
    IF pairs = <<>> THEN <<>>
    ELSE insert_pair(sort_pairs(SubSeq(pairs, 1, Len(pairs) - 1)),
                     pairs[Len(pairs)])

\* seq[::-1]
reversed(seq) == [i \in 1..Len(seq) |-> seq[Len(seq) + 1 - i]]

\* the current members, sorted
sorted_current(md, current) == sorted_strings(member_names(md) \cap current)

\* the data written to alignment.json
_generate_alignment_json(corpus, md, current) ==
    LET names == sorted_current(md, current)
        pairs == sort_pairs(collect_pairs(corpus, md, combinations2(names), 1))
    IN  [members |-> [i \in 1..Len(names) |->
                         member_get(md, names[i]).short_name],
         alignment_pairs |-> pairs,
         most_aligned |->
             IF Len(pairs) >= 3
             THEN reversed(SubSeq(pairs, Len(pairs) - 2, Len(pairs)))
             ELSE reversed(pairs),
         least_aligned |->
             IF Len(pairs) >= 3 THEN SubSeq(pairs, 1, 3) ELSE pairs]

(***************************************************************************)
(* The member statistics and the alignment over a corpus of vote records   *)
(***************************************************************************)

MaxBallots == 3     \* vote records in self.votes

\* the roster, in the order the members were loaded
StatsNames ==
    <<<<"A", "n", "n", " ", "L", "e", "e">>, <<"B", "o", " ", "L", "e", "e">>, <<"A", "l", " ", "L", "e", "e">>, <<"A", "n", "n", " ", "R", "o", "e">>,
      <<"C", "a", "s", "e", "y", " ", "T", "h", "o", "m", "a", "s", " ", "I", "I">>>>

\* self.members after _load_members and _assign_member_ids
StatsRoster ==
    disambiguated(
        <<member_dict(StatsNames[1], D1), member_dict(StatsNames[2], D1),
          member_dict(StatsNames[3], <<>>), member_dict(StatsNames[4], D2),
          member_dict(StatsNames[5], D2)>>)

\* A vote record as the loader builds it, with the keys the aggregation
\* reads: choices[i] is the choice of StatsNames[i], "None" when the member
\* is not in the mapping; the tallies are counted from the mapping.
Ballot(result, choices) ==
    LET member_votes ==
            [n \in {StatsNames[i] :
                       i \in {j \in 1..Len(StatsNames) : choices[j] # "None"}}
                |-> choices[CHOOSE i \in 1..Len(StatsNames) :
                                StatsNames[i] = n]]
    IN  [outcome |-> result,
         ayes |-> tally(member_votes, "AYE"),
         noes |-> tally(member_votes, "NAY"),
         abstain |-> tally(member_votes, "ABSTAIN"),
         absent |-> tally(member_votes, "ABSENT"),
         member_votes |-> member_votes]

\* a 3-2 PASS, a 1-3 FAIL, a continued item with an absence and an
\* abstention, a 4-1 PASS, a 2-0 PASS with an abstention, a tabled item
BallotPool ==
    {Ballot("PASS", <<"AYE", "AYE", "AYE", "NAY", "NAY">>),
     Ballot("FAIL", <<"AYE", "NAY", "NAY", "NAY", "ABSENT">>),
     Ballot("CONTINUED", <<"ABSENT", "AYE", "ABSTAIN", "NAY", "None">>),
     Ballot("PASS", <<"AYE", "AYE", "AYE", "AYE", "NAY">>),
     Ballot("PASS", <<"ABSTAIN", "AYE", "None", "AYE", "None">>),
     Ballot("TABLED", <<"AYE", "NAY", "None", "None", "None">>)}

InitStats ==
    /\ pc = "start"
    /\ builder_votes \in BoundedSeq(BallotPool, MaxBallots)
    /\ member_data = StatsRoster
    /\ member_id_map = assigned_ids(StatsRoster)
    /\ current_members =
           {StatsNames[1], StatsNames[2], StatsNames[3], StatsNames[4]}
    /\ stats_name = <<>>
    /\ stats = <<>>
    /\ dissent_denom = 0
    /\ alignment = <<>>
    /\ rows = <<>>
    /\ cursor = 1
    /\ meetings_by_key = <<>>
    /\ seen_items = {}
    /\ builder_all_items = <<>>
    /\ vote_id_counter = Len(builder_votes)
    /\ meeting_id_counter = 0
    /\ meetings = <<>>
    /\ NormalizeIdle /\ CorrelateIdle /\ VoteIdle /\ OutcomeIdle /\ CallIdle /\ RerunIdle

\* _compute_member_stats(name) for a member of the roster
ComputeMemberStats ==
    /\ pc = "start"
    /\ \E name \in member_names(member_data) :
           /\ stats_name' = name
           /\ stats' = _compute_member_stats(builder_votes, name)
           /\ dissent_denom' = dissent_denom_of(builder_votes, name)
    /\ UNCHANGED <<pc, member_data, current_members, member_id_map,
                   alignment, normalize_vars, correlate_vars, vote_vars,
                   outcome_vars, load_vars, call_vars, rerun_vars>>

GenerateAlignment ==
    /\ pc = "start"
    /\ alignment' = _generate_alignment_json(builder_votes, member_data,
                                             current_members)
    /\ pc' = "done"
    /\ UNCHANGED <<member_data, current_members, member_id_map, stats_name,
                   stats, dissent_denom, normalize_vars, correlate_vars,
                   vote_vars, outcome_vars, load_vars, call_vars, rerun_vars>>

NextStats == ComputeMemberStats \/ GenerateAlignment

SpecStats == InitStats /\ [][NextStats]_vars

\* the statistics of a member have been computed
StatsComputed == stats # <<>>

\* the choice of the member under study in the i-th vote record
ChoiceIn(i) == mv_get(builder_votes[i], stats_name)

\* the member under study is on the losing side of the i-th vote record
LosingSide(i) ==
    /\ stats_name \in DOMAIN builder_votes[i].member_votes
    /\ \/ builder_votes[i].outcome = "PASS" /\ ChoiceIn(i) = "NAY"
       \/ builder_votes[i].outcome = "FAIL" /\ ChoiceIn(i) = "AYE"

\* the margin of the i-th vote record is at most 2
CloseMargin(i) ==
    /\ builder_votes[i].ayes - builder_votes[i].noes <= 2
    /\ builder_votes[i].noes - builder_votes[i].ayes <= 2

\* C11: votes_on_losing_side is the number of records that have the member
\* in the mapping, outcome PASS or FAIL, and a choice against the outcome
\* (NAY on PASS, AYE on FAIL); close_vote_dissents is the number of those
\* whose ayes and noes differ by at most 2.
C11_LosingSideAndCloseDissent ==
    StatsComputed =>
        /\ stats.votes_on_losing_side =
               Cardinality({i \in 1..Len(builder_votes) : LosingSide(i)})
        /\ stats.close_vote_dissents =
               Cardinality({i \in 1..Len(builder_votes) :
                               LosingSide(i) /\ CloseMargin(i)})

\* the statistics of a member who cast NAY on a 3-2 PASS: the record counts
\* as a losing-side vote and as a close dissent
C11_Witness ==
    /\ StatsComputed
    /\ Len(builder_votes) = 1
    /\ builder_votes[1].outcome = "PASS"
    /\ builder_votes[1].ayes = 3
    /\ builder_votes[1].noes = 2
    /\ ChoiceIn(1) = "NAY"
    /\ stats.votes_on_losing_side = 1
    /\ stats.close_vote_dissents = 1

\* the records in which the member under study cast AYE or NAY (the choice
\* is neither ABSENT nor ABSTAIN) and whose outcome is PASS or FAIL
DecidedParticipations ==
    {i \in 1..Len(builder_votes) :
        /\ ChoiceIn(i) \notin {"None", "ABSENT", "ABSTAIN"}
        /\ builder_votes[i].outcome \in {"PASS", "FAIL"}}

\* C12: the dissent denominator is max(1, N), N the number of records in
\* which the member's choice is neither ABSENT nor ABSTAIN and the outcome
\* is PASS or FAIL.
C12_DenominatorIsDecidedCount ==
    StatsComputed =>
        dissent_denom =
            IF Cardinality(DecidedParticipations) > 1
            THEN Cardinality(DecidedParticipations) ELSE 1

\* the pairs of current members, the lesser name in front
CurrentPairs ==
    {p \in (member_names(member_data) \cap current_members)
            \X (member_names(member_data) \cap current_members) :
        StrLess(p[1], p[2])}

\* the records where both members of the pair cast AYE or NAY
SharedRecords(p) ==
    {i \in 1..Len(builder_votes) :
        /\ mv_get(builder_votes[i], p[1]) \in {"AYE", "NAY"}
        /\ mv_get(builder_votes[i], p[2]) \in {"AYE", "NAY"}}

\* the shared records where the two choices are equal
AgreedRecords(p) ==
    {i \in SharedRecords(p) :
        mv_get(builder_votes[i], p[1]) = mv_get(builder_votes[i], p[2])}

\* what the output says of a pair, the rate apart
PairCounts(p) ==
    [member1 |-> member_get(member_data, p[1]).short_name,
     member2 |-> member_get(member_data, p[2]).short_name,
     shared_votes |-> Cardinality(SharedRecords(p)),
     agreements |-> Cardinality(AgreedRecords(p))]

\* the same of an entry of the output
EntryCounts(e) ==
    [member1 |-> e.member1, member2 |-> e.member2,
     shared_votes |-> e.shared_votes, agreements |-> e.agreements]

\* C13: the output has one entry for every pair of current members with a
\* shared record (both cast AYE or NAY) and none for a pair without; the
\* entry gives the number of shared records, the number of them with equal
\* choices, and their ratio as a percentage to one decimal, which is 100.0
\* when the choices are equal on every shared record.
C13_AlignmentCounts ==
    pc = "done" =>
        LET out == alignment.alignment_pairs
            wanted == {p \in CurrentPairs : SharedRecords(p) # {}}
        IN  /\ \A x \in {EntryCounts(out[k]) : k \in 1..Len(out)}
                          \cup {PairCounts(p) : p \in wanted} :
                   Cardinality({k \in 1..Len(out) : EntryCounts(out[k]) = x})
                       = Cardinality({p \in wanted : PairCounts(p) = x})
            /\ \A k \in 1..Len(out) :
                   /\ out[k].shared_votes > 0
                   /\ 2 * abs_diff(out[k].agreement_rate * out[k].shared_votes,
                                   1000 * out[k].agreements)
                          <= out[k].shared_votes
                   /\ out[k].agreements = out[k].shared_votes
                          => out[k].agreement_rate = 1000

\* an alignment with a pair at 100.0, a pair that never agreed, and the
\* other pairs left out for want of a shared record
C13_Witness ==
    /\ pc = "done"
    /\ Len(alignment.alignment_pairs) = 2
    /\ alignment.alignment_pairs[1].agreement_rate = 0
    /\ alignment.alignment_pairs[2].agreement_rate = 1000
    /\ Cardinality(CurrentPairs) = 6

\* the member under study cast AYE on every record with outcome PASS and
\* NAY on no record
AyeOnEveryPass ==
    /\ \A i \in 1..Len(builder_votes) :
           builder_votes[i].outcome = "PASS" => ChoiceIn(i) = "AYE"
    /\ \A i \in 1..Len(builder_votes) : ChoiceIn(i) # "NAY"

\* C14 as stated: a member who cast AYE on every record with outcome PASS
\* and NAY on none has a dissent rate of 0.
C14_AyeOnEveryPassNoDissent ==
    (StatsComputed /\ AyeOnEveryPass) => stats.dissent_rate = 0

\* C14: a member who cast AYE on every record with outcome PASS, NAY on
\* none, and AYE on no record with outcome FAIL has a dissent rate of 0.
C14_NoDissentWithoutAyeOnFail ==
    (/\ StatsComputed
     /\ AyeOnEveryPass
     /\ \A i \in 1..Len(builder_votes) :
            builder_votes[i].outcome = "FAIL" => ChoiceIn(i) # "AYE")
        => stats.dissent_rate = 0

\* the statistics of a member over three records: AYE on two that passed,
\* absent from one that was continued
C14_Witness ==
    /\ StatsComputed
    /\ AyeOnEveryPass
    /\ Len(builder_votes) = 3
    /\ Cardinality({i \in 1..3 : builder_votes[i].outcome = "PASS"}) = 2
    /\ \E i \in 1..3 : ChoiceIn(i) = "ABSENT"
    /\ stats.dissent_rate = 0

(***************************************************************************)
(* normalize_name applied to one raw name                                  *)
(***************************************************************************)

MaxGap == 2         \* whitespace characters between two words of a name

\* the whitespace runs between words
Gaps == UNION {[1..n -> {" ", "\t"}] : n \in 1..MaxGap}

\* the words of the names of the alias table, listed and canonical, and of
\* names the table does not have
NameWords ==
    {split(NAME_ALIASES[i][1]) : i \in 1..Len(NAME_ALIASES)}
        \cup {split(NAME_ALIASES[i][2]) : i \in 1..Len(NAME_ALIASES)}
        \cup {<<<<"P", "a", "t">>, <<"R", "o", "e">>>>, <<<<"C", "a", "s", "e", "y">>, <<"T", "h", "o", "m", "a", "s">>, <<"I", "I">>>>,
              <<<<"T", "e", "n", "n", "e", "l">>>>, <<<<"C", "a", "r", "o", "l", "y", "n">>, <<"K", "i", "n", "g">>>>}

\* the words with one gap between them
RECURSIVE words_joined(_, _)
words_joined(ws, gap) ==
    IF Len(ws) = 0 THEN <<>>
    ELSE IF Len(ws) = 1 THEN ws[1]
    ELSE ws[1] \o gap \o words_joined(Tail(ws), gap)

\* a raw name as a CSV header or a voter_name cell may hold it
RawNames ==
    {pre \o words_joined(ws, gap) \o post :
        pre \in Pads, ws \in NameWords, gap \in Gaps, post \in Pads}

InitName ==
    /\ pc = "start"
    /\ call_args \in {<<n>> : n \in RawNames}
    /\ call_result = <<>>
    /\ NormalizeIdle /\ CorrelateIdle /\ VoteIdle /\ OutcomeIdle /\ LoadIdle
    /\ AggregateIdle /\ RerunIdle

NormalizeName ==
    /\ pc = "start"
    /\ call_result' = normalize_name(call_args[1])
    /\ pc' = "done"
    /\ UNCHANGED <<call_args, normalize_vars, correlate_vars, vote_vars,
                   outcome_vars, load_vars, aggregate_vars, rerun_vars>>

NextName == NormalizeName

SpecName == InitName /\ [][NextName]_vars

\* the name is one of the variant spellings the alias table lists
ListedVariant(name) ==
    \E i \in 1..Len(NAME_ALIASES) : NAME_ALIASES[i][1] = name

\* the canonical spelling the table gives a listed variant
CanonicalOf(name) ==
    NAME_ALIASES[CHOOSE i \in 1..Len(NAME_ALIASES) :
                     NAME_ALIASES[i][1] = name][2]

\* the words of the raw name with single spaces between them
SingleSpaced(name) == words_joined(split(name), <<" ">>)

\* C16: the result depends on the words of the raw name only, not on the
\* whitespace around or between them; a variant spelling listed in the
\* alias table gives its canonical spelling; a name whose single-spaced
\* form the table does not list comes back as that single-spaced form.
C16_VariantsCollapse ==
    pc = "done" =>
        /\ call_result = normalize_name(SingleSpaced(call_args[1]))
        /\ ListedVariant(call_args[1]) =>
               call_result = CanonicalOf(call_args[1])
        /\ ~ListedVariant(SingleSpaced(call_args[1])) =>
               call_result = SingleSpaced(call_args[1])

\* a listed variant written with a tab in front and two spaces between
\* its words has given the canonical spelling
C16_Witness ==
    /\ pc = "done"
    /\ call_args[1] = <<"\t", "T", "e", "n", "n", "e", "l", " ", " ", "A", "t", "k", "i", "n", "s">>
    /\ call_result = <<"T", "e", "n", "n", "e", "l", "l", " ", "A", "t", "k", "i", "n", "s">>

(***************************************************************************)
(* Two runs of the stages on the same input.  A Python set is iterated in  *)
(* an order that may differ from one run to the next (string hashing is    *)
(* seeded per process); the only set the stages iterate is                 *)
(* unmatched_socrata_keys, inside sorted().  Lists and dicts are iterated  *)
(* in insertion order, and list.sort and sorted are stable.                *)
(***************************************************************************)

MaxRerunLegistar == 1   \* length of the Legistar item list of a repeated run
MaxRerunSocrata == 2    \* length of the Socrata record list of a repeated run
MaxRerunRows == 2       \* CSV rows of a repeated run

\* the orders in which iterating over a set can yield its elements
IterationOrders(set) ==
    {f \in [1..Cardinality(set) -> set] : \A k \in set : \E i \in DOMAIN f : f[i] = k}

\* sorted(unmatched_socrata_keys) on the list the iteration yields
RECURSIVE insert_key(_, _)
insert_key(sorted, k) ==
    IF sorted = <<>> THEN <<k>>
    ELSE IF KeyLess(k, Head(sorted)) THEN <<k>> \o sorted
    ELSE <<Head(sorted)>> \o insert_key(Tail(sorted), k)

RECURSIVE sorted_keys(_)
sorted_keys(iteration) ==
    IF iteration = <<>> THEN <<>>
    ELSE insert_key(sorted_keys(SubSeq(iteration, 1, Len(iteration) - 1)),
                    iteration[Len(iteration)])

\* the items appended by "for key in ...", one per key in the order given
new_items_for(S, keys) ==
    [i \in 1..Len(keys) |->
        LET records == SocrataGroup(S, keys[i])
        IN  _merge_socrata_into_item(NewItem(keys[i], records[1]), records)]

\* a slip that walks the set as it comes and leaves the list unsorted
returned_in_set_order(L, S, iteration) ==
    IF S = <<>> THEN L
    ELSE MergedLegistar(L, S) \o new_items_for(S, iteration)

\* the list phase3_correlate returns when the set yields its keys in the
\* order iteration
returned_items(L, S, iteration) ==
    IF S = <<>> THEN L
    ELSE SortItems(MergedLegistar(L, S)
                   \o new_items_for(S, sorted_keys(iteration)))

\* self.members as _load_members leaves it for the loader's roster
RerunRoster ==
    <<member_dict(<<"T", "e", "n", "n", "e", "l", "l", " ", "A", "t", "k", "i", "n", "s">>, D1), member_dict(<<"A", "d", "a", "m", " ", "B", "a", "z", "a", "l", "d", "u", "a">>, D1)>>

\* what a run leaves behind
RunOutput ==
    [all_items |-> all_items,
     legistar_items |-> legistar_items,
     meetings |-> meetings,
     votes |-> builder_votes,
     agenda_items |-> builder_all_items,
     members |-> member_data,
     member_id_map |-> member_id_map,
     stats |-> stats,
     alignment |-> alignment]

\* the stages do not read each other's variables: a repeated run varies the
\* input of the correlation or the rows of the loader
InitRerun ==
    /\ pc = "correlate"
    /\ \E a \in BoundedSeq(LegistarPool, MaxRerunLegistar) :
          /\ DateOrdered(a)
          /\ legistar_in = [i \in 1..Len(a) |-> LegistarItem(i, a[i])]
    /\ legistar_items = legistar_in
    /\ socrata_records \in BoundedSeq(SocrataPool, MaxRerunSocrata)
    /\ all_items = <<>>
    /\ rows \in BoundedSeq(RowPool, MaxRerunRows)
    /\ rows = <<>> \/ (legistar_in = <<>> /\ socrata_records = <<>>)
    /\ cursor = 1
    /\ meetings_by_key = <<>>
    /\ seen_items = {}
    /\ builder_votes = <<>>
    /\ builder_all_items = <<>>
    /\ vote_id_counter = 0
    /\ meeting_id_counter = 0
    /\ meetings = <<>>
    /\ member_data = RerunRoster
    /\ current_members = members
    /\ member_id_map = <<>>
    /\ stats_name = <<>>
    /\ stats = <<>>
    /\ dissent_denom = 0
    /\ alignment = <<>>
    /\ run_no = 1
    /\ first_run = <<>>
    /\ NormalizeIdle /\ VoteIdle /\ OutcomeIdle /\ CallIdle

\* phase3_correlate, the set walked in one of its iteration orders
CorrelateRun ==
    /\ pc = "correlate"
    /\ \E iteration \in IterationOrders(unmatched_socrata_keys(legistar_items, socrata_records)) :
          all_items' = returned_items(legistar_items, socrata_records,
                                      iteration)
    /\ legistar_items' =
           phase3_correlate(legistar_items, socrata_records).legistar_items
    /\ pc' = "start"
    /\ UNCHANGED <<legistar_in, socrata_records, normalize_vars, vote_vars,
                   outcome_vars, load_vars, aggregate_vars, call_vars,
                   rerun_vars>>

\* run() after _load_all_csv_data: _assign_member_ids, the statistics of
\* every member in id order (_generate_council_json) and the alignment
Aggregate ==
    /\ pc = "done"
    /\ LET ids == assigned_ids(member_data)
           md == disambiguated(member_data)
       IN  /\ member_id_map' = ids
           /\ member_data' = md
           /\ stats' = [i \in 1..Len(md) |->
                           _compute_member_stats(builder_votes,
                               CHOOSE n \in DOMAIN ids : ids[n] = i)]
           /\ alignment' = _generate_alignment_json(builder_votes, md,
                                                    current_members)
    /\ pc' = "aggregated"
    /\ UNCHANGED <<current_members, stats_name, dissent_denom,
                   normalize_vars, correlate_vars, vote_vars, outcome_vars,
                   load_vars, call_vars, rerun_vars>>

\* a second process is started on the same input
RunAgain ==
    /\ pc = "aggregated"
    /\ run_no = 1
    /\ first_run' = RunOutput
    /\ run_no' = 2
    /\ legistar_items' = legistar_in
    /\ all_items' = <<>>
    /\ cursor' = 1
    /\ meetings_by_key' = <<>>
    /\ seen_items' = {}
    /\ builder_votes' = <<>>
    /\ builder_all_items' = <<>>
    /\ vote_id_counter' = 0
    /\ meeting_id_counter' = 0
    /\ meetings' = <<>>
    /\ member_data' = RerunRoster
    /\ member_id_map' = <<>>
    /\ stats' = <<>>
    /\ alignment' = <<>>
    /\ pc' = "correlate"
    /\ UNCHANGED <<legistar_in, socrata_records, rows, current_members,
                   stats_name, dissent_denom, normalize_vars, vote_vars,
                   outcome_vars, call_vars>>

NextRerun == CorrelateRun \/ LoadRow \/ Finish \/ Aggregate \/ RunAgain

SpecRerun == InitRerun /\ [][NextRerun]_vars

\* C17: when the second run of the stages on the same input has finished,
\* everything it produced (the correlated items, the meetings, the vote
\* records, the agenda items, the member ids, the statistics and the
\* alignment pairs) equals what the first run produced, in order and value.
C17_RunsAgree ==
    (run_no = 2 /\ pc = "aggregated") => RunOutput = first_run

\* both runs are over, and the correlation had two groups without a
\* Legistar item to walk
C17_Witness ==
    /\ run_no = 2
    /\ pc = "aggregated"
    /\ Cardinality(unmatched_socrata_keys(legistar_in, socrata_records)) >= 2
    /\ Len(all_items) >= 2

\* C18: a Socrata record without a date is skipped by phase3_correlate: it
\* produces no output item, so with every Legistar item dated no item of
\* the returned list has an empty event_date.
C18_UndatedRecordSkipped ==
    (/\ pc = "done"
     /\ \A i \in 1..Len(legistar_in) : legistar_in[i].event_date # <<>>)
    => \A i \in 1..Len(all_items) : all_items[i].event_date # <<>>

(***************************************************************************)
(* classify_topics on titles put together from words of the keyword table *)
(***************************************************************************)

MaxTitleWords == 3  \* words of a title

\* words of a title: one keyword in mixed case and one in upper case, a
\* phrase that two categories list, a word that holds the keywords of two
\* categories, and two words no category lists
TitleWords ==
    {<<"B", "o", "a", "r", "d">>, <<"B", "U", "D", "G", "E", "T">>, <<"t", "a", "x", " ", "i", "n", "c", "r", "e", "m", "e", "n", "t">>, <<"p", "a", "r", "k", "i", "n", "g">>, <<"Z", "o", "n", "i", "n", "g">>,
     <<"r", "e", "c", "e", "s", "s">>, <<" ">>}

\* the titles: the words joined by single spaces
Titles ==
    {words_joined(w, <<" ">>) : w \in BoundedSeq(TitleWords, MaxTitleWords)}

InitTopics ==
    /\ pc = "start"
    /\ call_args \in {<<t>> : t \in Titles}
    /\ call_result = <<>>
    /\ NormalizeIdle /\ CorrelateIdle /\ VoteIdle /\ OutcomeIdle /\ LoadIdle
    /\ AggregateIdle /\ RerunIdle

ClassifyTopics ==
    /\ pc = "start"
    /\ call_result' = classify_topics(call_args[1])
    /\ pc' = "done"
    /\ UNCHANGED <<call_args, normalize_vars, correlate_vars, vote_vars,
                   outcome_vars, load_vars, aggregate_vars, rerun_vars>>

NextTopics == ClassifyTopics

SpecTopics == InitTopics /\ [][NextTopics]_vars

\* the positions in the table of the categories with a keyword in the
\* lower-cased title
MatchingCategories(title_raw) ==
    {i \in 1..Len(TOPIC_KEYWORDS) :
        \E k \in 1..Len(TOPIC_KEYWORDS[i].keywords) :
            Contains(lower(title_raw), TOPIC_KEYWORDS[i].keywords[k])}

\* the j-th position of a set of positions, in increasing order
NthOf(positions, j) ==
    CHOOSE i \in positions : Cardinality({m \in positions : m < i}) = j - 1

\* C19: classify_topics returns between 1 and 3 distinct topics: the first
\* 3 categories, in the order of the keyword table, that have a keyword
\* occurring in the lower-cased title; it returns the single topic
\* "General" exactly when no category matches (an empty title included).
C19_FirstThreeMatchesOrGeneral ==
    pc = "done" =>
        LET matching == MatchingCategories(call_args[1])
            topics == call_result
        IN  /\ Len(topics) \in 1..3
            /\ \A i, j \in 1..Len(topics) : i # j => topics[i] # topics[j]
            /\ (topics = <<"General">>) <=> (matching = {})
            /\ call_args[1] = <<>> => topics = <<"General">>
            /\ matching # {} =>
                   /\ Len(topics) =
                          IF Cardinality(matching) < 3
                          THEN Cardinality(matching) ELSE 3
                   /\ \A j \in 1..Len(topics) :
                          topics[j] = TOPIC_KEYWORDS[NthOf(matching, j)].topic

\* a title that more than three categories match, cut to three topics
C19_Witness ==
    /\ pc = "done"
    /\ Cardinality(MatchingCategories(call_args[1])) > 3
    /\ Len(call_result) = 3

(***************************************************************************)
(* classify_non_voted_item on the texts of an agenda item without votes    *)
(***************************************************************************)

\* titles: a header phrase in mixed case and one with padding, a header
\* phrase as the first line of a title that also announces a first
\* reading, a title that only begins with a header phrase, a first
\* reading, a hearing, a title no test mentions, no title
ItemTitles ==
    {<<"C", "o", "n", "s", "e", "n", "t", " ", "A", "g", "e", "n", "d", "a">>, <<" ", "m", "i", "n", "u", "t", "e", "s", " ">>, <<"A", "G", "E", "N", "D", "A", "\n", "F", "i", "r", "s", "t", " ", "R", "e", "a", "d", "i", "n", "g", " ", "o", "f", " ", "i", "t", "e", "m", "s">>,
     <<"A", "g", "e", "n", "d", "a", " ", "i", "t", "e", "m", "s">>, <<"F", "i", "r", "s", "t", " ", "R", "e", "a", "d", "i", "n", "g", " ", "o", "f", " ", "a", "n", " ", "o", "r", "d", "i", "n", "a", "n", "c", "e">>,
     <<"P", "u", "b", "l", "i", "c", " ", "h", "e", "a", "r", "i", "n", "g">>, <<"B", "u", "d", "g", "e", "t">>, <<>>}

\* final actions: several trigger two tests at once
ItemFinalActions ==
    {<<>>, <<"f", "i", "r", "s", "t", " ", "r", "e", "a", "d">>, <<"R", "E", "A", "D", " ", "A", "N", "D", " ", "F", "I", "L", "E", "D">>, <<"F", "I", "R", "S", "T", " ", "R", "E", "A", "D", "I", "N", "G", ";", " ", "F", "I", "L", "E", "D">>,
     <<"a", "d", "o", "p", "t", "e", "d">>, <<"A", "D", "O", "P", "T", "E", "D", " ", "A", "S", " ", "C", "O", "R", "R", "E", "C", "T", "E", "D">>, <<"C", "o", "r", "r", "e", "c", "t", "e", "d">>, <<"d", "e", "f", "e", "r", "r", "e", "d">>}

ItemStatuses ==
    {<<>>, <<"A", "p", "p", "r", "o", "v", "e", "d">>, <<"A", "p", "p", "r", "o", "v", "e", "d", " ", "a", "s", " ", "c", "o", "r", "r", "e", "c", "t", "e", "d">>, <<"C", "o", "r", "r", "e", "c", "t", "e", "d">>, <<"F", "i", "l", "e", "d">>}

ItemMatterTypes == {<<>>, <<"O", "r", "d", "i", "n", "a", "n", "c", "e">>}

InitNonVoted ==
    /\ pc = "start"
    /\ call_args \in {<<t, mt, ms, fa>> : t \in ItemTitles, mt \in ItemMatterTypes, ms \in ItemStatuses, fa \in ItemFinalActions}
    /\ call_result = <<>>
    /\ NormalizeIdle /\ CorrelateIdle /\ VoteIdle /\ OutcomeIdle /\ LoadIdle
    /\ AggregateIdle /\ RerunIdle

ClassifyNonVoted ==
    /\ pc = "start"
    /\ call_result' = classify_non_voted_item(call_args[1], call_args[2],
                                              call_args[3], call_args[4])
    /\ pc' = "done"
    /\ UNCHANGED <<call_args, normalize_vars, correlate_vars, vote_vars,
                   outcome_vars, load_vars, aggregate_vars, rerun_vars>>

NextNonVoted == ClassifyNonVoted

SpecNonVoted == InitNonVoted /\ [][NextNonVoted]_vars

\* the texts as the tests read them: trimmed and in upper case
TitleRead == upper(strip(call_args[1]))

StatusRead == upper(strip(call_args[3]))

FinalActionRead == upper(strip(call_args[4]))

\* the first line of a text
FirstLine(text) ==
    IF \E i \in 1..Len(text) : text[i] = "\n"
    THEN SubSeq(text, 1,
                (CHOOSE i \in 1..Len(text) :
                    /\ text[i] = "\n"
                    /\ \A j \in 1..(i - 1) : text[j] # "\n") - 1)
    ELSE text

\* the tests of the claim, in its order
HeaderTest ==
    \E i \in 1..Len(SECTION_HEADERS) : FirstLine(TitleRead) = SECTION_HEADERS[i]

FirstReadingTest ==
    \/ Contains(FinalActionRead, <<"F", "I", "R", "S", "T">>) /\ Contains(FinalActionRead, <<"R", "E", "A", "D">>)
    \/ Contains(TitleRead, <<"F", "I", "R", "S", "T", " ", "R", "E", "A", "D", "I", "N", "G">>)

ReadAndFiledTest ==
    Contains(FinalActionRead, <<"R", "E", "A", "D">>) /\ Contains(FinalActionRead, <<"F", "I", "L", "E", "D">>)

AdoptedTest ==
    Contains(FinalActionRead, <<"A", "D", "O", "P", "T", "E", "D">>) \/ Contains(StatusRead, <<"A", "P", "P", "R", "O", "V", "E", "D">>)

CorrectionsTest ==
    Contains(FinalActionRead, <<"C", "O", "R", "R", "E", "C", "T">>) \/ Contains(StatusRead, <<"C", "O", "R", "R", "E", "C", "T">>)

HearingTest == Contains(TitleRead, <<"H", "E", "A", "R", "I", "N", "G">>)

\* what the first test that holds gives
FirstMatch ==
    IF HeaderTest THEN <<"committee_header", "medium", "section_header">>
    ELSE IF FirstReadingTest THEN <<"first_reading", "high", "legislation">>
    ELSE IF ReadAndFiledTest THEN <<"read_and_filed", "low", "procedural">>
    ELSE IF AdoptedTest THEN <<"adopted_no_vote", "medium", "legislation">>
    ELSE IF CorrectionsTest THEN <<"corrections", "low", "procedural">>
    ELSE IF HearingTest THEN <<"other", "medium", "legislation">>
    ELSE <<"other", "low", "procedural">>

\* C20: classify_non_voted_item applies its tests in a fixed order, first
\* match wins: section header, first reading, read and filed, adopted
\* without vote, corrections, hearing, default; the category comes with
\* the importance and the display type documented for it.
C20_FirstMatchWins ==
    pc = "done" =>
        <<call_result.category, call_result.importance,
          call_result.display_type>> = FirstMatch

\* a final action that is both a first reading and read and filed, on an
\* item that is no section header: the first reading wins
C20_Witness ==
    /\ pc = "done"
    /\ ~HeaderTest
    /\ Contains(FinalActionRead, <<"F", "I", "R", "S", "T">>)
    /\ ReadAndFiledTest
    /\ call_result.category = "first_reading"

\* the text ends in two or more periods
EndsInPeriods(text) ==
    /\ Len(text) >= 2
    /\ text[Len(text)] = "."
    /\ text[Len(text) - 1] = "."

\* C21: normalize_agenda_number removes exactly one trailing period: an
\* input that, trimmed of whitespace, ends in two or more periods keeps all
\* of them but the last.
C21_OnePeriodRemoved ==
    (pc = "done" /\ EndsInPeriods(strip(raw)))
    => cleaned = SubSeq(strip(raw), 1, Len(strip(raw)) - 1)

\* the pairs in enumeration order: the combinations of the sorted current
\* members that share a vote, before pairs.sort
EnumeratedPairs ==
    collect_pairs(builder_votes, member_data,
                  combinations2(sorted_current(member_data, current_members)),
                  1)

\* the position the i-th enumerated pair has among the lowest rates first,
\* equal rates in enumeration order
LowestRank(i) ==
    1 + Cardinality({j \in 1..Len(EnumeratedPairs) :
            \/ EnumeratedPairs[j].agreement_rate < EnumeratedPairs[i].agreement_rate
            \/ /\ EnumeratedPairs[j].agreement_rate = EnumeratedPairs[i].agreement_rate
               /\ j < i})

\* the same among the highest rates first
HighestRank(i) ==
    1 + Cardinality({j \in 1..Len(EnumeratedPairs) :
            \/ EnumeratedPairs[j].agreement_rate > EnumeratedPairs[i].agreement_rate
            \/ /\ EnumeratedPairs[j].agreement_rate = EnumeratedPairs[i].agreement_rate
               /\ j < i})

\* 3, or the number of pairs when there are fewer
ListedPairs == IF Len(EnumeratedPairs) < 3 THEN Len(EnumeratedPairs) ELSE 3

\* C22: least_aligned holds the 3 pairs with the lowest agreement rate and
\* most_aligned the 3 pairs with the highest (all pairs when there are
\* fewer than 3), and in both lists pairs with equal agreement rate are in
\* pair enumeration order.
C22_TiesInEnumerationOrder ==
    alignment # <<>> =>
        /\ alignment.least_aligned =
               [k \in 1..ListedPairs |->
                   EnumeratedPairs[CHOOSE i \in 1..Len(EnumeratedPairs) :
                                       LowestRank(i) = k]]
        /\ alignment.most_aligned =
               [k \in 1..ListedPairs |->
                   EnumeratedPairs[CHOOSE i \in 1..Len(EnumeratedPairs) :
                                       HighestRank(i) = k]]

\* the item number of an agenda item: the one its dict carries, or the
\* agenda number of the CSV row it was made from
ItemNumberOf(item) ==
    IF "item_number" \in DOMAIN item THEN item.item_number
    ELSE rstrip_dot(strip(rows[item.csv_row].agenda_number))

\* C23: after _load_all_csv_data each meeting's agenda_items are in the
\* order of their sequence numbers, and items with equal sequence number
\* are in the order of their item numbers.
C23_AgendaOrderedBySequenceThenNumber ==
    pc = "done" =>
        \A m \in 1..Len(meetings) :
            \A i, j \in 1..Len(meetings[m].agenda_items) :
                i < j =>
                    LET a == meetings[m].agenda_items[i]
                        b == meetings[m].agenda_items[j]
                    IN  /\ a.agenda_sequence <= b.agenda_sequence
                        /\ a.agenda_sequence = b.agenda_sequence
                               => ~StrLess(ItemNumberOf(b), ItemNumberOf(a))

\* the part of a canonical name after its last blank
LastToken(name) ==
    LET blanks == {i \in 1..Len(name) : name[i] = " "}
        last == IF blanks = {} THEN 0
                ELSE CHOOSE i \in blanks : \A k \in blanks : k <= i
    IN  SubSeq(name, last + 1, Len(name))

\* the short name before disambiguation: the override, else the last token
DerivedShortName(name) ==
    IF name = <<"C", "a", "s", "e", "y", " ", "T", "h", "o", "m", "a", "s", " ", "I", "I">> THEN <<"T", "h", "o", "m", "a", "s">> ELSE LastToken(name)

\* C24: a member's short name is the override-table entry when there is
\* one, else the last token of the canonical name; after the second pass
\* of _assign_member_ids a member whose short name is shared with another
\* canonical name has "{first initial}. " in front of it, and a member
\* with an unshared short name has it unchanged.
C24_ShortNamesDisambiguated ==
    pc = "done" =>
        \A i \in 1..Len(member_data) :
            LET name == member_data[i].full_name
                short == DerivedShortName(name)
                shared == \E j \in 1..Len(member_data) :
                              /\ j # i
                              /\ DerivedShortName(member_data[j].full_name)
                                     = short
            IN  member_data[i].short_name =
                    IF shared THEN <<name[1], ".", " ">> \o short ELSE short

\* two members named Lee got their initial, the member with the override
\* kept the override
C24_Witness ==
    /\ pc = "done"
    /\ \E i, j, k \in 1..Len(member_data) :
           /\ member_data[i].short_name = <<"B", ".", " ", "L", "e", "e">>
           /\ member_data[j].short_name = <<"A", ".", " ", "L", "e", "e">>
           /\ member_data[k].short_name = <<"T", "h", "o", "m", "a", "s">>

\* the Legistar item has no matching Socrata group: no record has its date
\* and its normalized agenda number, or that number is empty
NoMatchingGroup(item) ==
    \/ LegistarKey(item)[2] = <<>>
    \/ \A r \in 1..Len(socrata_records) :
           SocrataKey(socrata_records[r]) # LegistarKey(item)

\* C25: phase3_correlate never touches a Legistar item that has no
\* matching Socrata group: the item is in the returned list, and in
\* legistar_items, with every field as it was passed in.
C25_UnmatchedItemUntouched ==
    pc = "done" =>
        \A i \in 1..Len(legistar_in) :
            NoMatchingGroup(legistar_in[i]) =>
                /\ legistar_items[i] = legistar_in[i]
                /\ \E j \in 1..Len(all_items) : all_items[j] = legistar_in[i]
                /\ \A j \in 1..Len(all_items) :
                       all_items[j].event_item_id = legistar_in[i].event_item_id
                           => all_items[j] = legistar_in[i]

\* of two Legistar items one took the votes of a group and the other, an
\* item with a number, had no group
C25_Witness ==
    /\ pc = "done"
    /\ \E i, j \in 1..Len(legistar_in) :
           /\ NoMatchingGroup(legistar_in[i])
           /\ LegistarKey(legistar_in[i])[2] # <<>>
           /\ legistar_items[j] # legistar_in[j]
           /\ legistar_items[i] = legistar_in[i]

\* C26: votes_on_losing_side computed by _compute_member_stats never
\* exceeds the dissent denominator, so the dissent_rate reported is between
\* 0 and 100 (0 and 1000 tenths).
C26_DissentRateWithinBounds ==
    StatsComputed =>
        /\ stats.votes_on_losing_side <= dissent_denom
        /\ stats.dissent_rate >= 0
        /\ stats.dissent_rate <= 1000

\* the passed cell phase 4 writes for a flag: '1', '0', or '' for None
PassedCellOf(flag) == IF flag = "None" THEN <<>> ELSE <<flag>>

\* C27: the passed flag the extractor derives from the final-action text
\* never changes the outcome: derive_outcome with the flag derive_passed
\* gives for the text equals derive_outcome without a flag.
C27_DerivedFlagChangesNothing ==
    (/\ pc = "done"
     /\ passed_val = PassedCellOf(derive_passed(final_action)))
    => outcome = derive_outcome(<<>>, final_action, matter_status)

\* C28: after the disambiguation pass of _assign_member_ids no two members
\* have the same short name.
C28_ShortNamesUnique ==
    pc = "done" =>
        \A i, j \in 1..Len(member_data) :
            i # j => member_data[i].short_name # member_data[j].short_name

\* C29: normalize_agenda_number is idempotent: applied to its own result it
\* returns that result.
C29_Idempotent ==
    pc = "done" => normalize_agenda_number(cleaned) = cleaned

\* the extractor treats the item of the row as voted: _write_csv_file
\* writes item_votes.get(member, '') into the member's column, so a filled
\* cell is an entry of a non-empty item_votes
ExtractorVoted(row) == \E i \in 1..Len(member_cols) : row.cells[i] # <<>>

\* every voter of the row is on the member roster
VotersOnRoster(row) ==
    \A i \in 1..Len(member_cols) :
        row.cells[i] # <<>> => normalize_name(member_cols[i]) \in members

\* C30: the two stages agree on which items are voted: an item the
\* extractor treats as voted, with all its voter names on the roster, is
\* loaded by _load_all_csv_data as a voted item, not as a non-voted one.
C30_StagesAgreeOnVoted ==
    \A m \in AllMeetings :
        \A i \in 1..Len(m.agenda_items) :
            LET row == rows[m.agenda_items[i].csv_row]
            IN  (ExtractorVoted(row) /\ VotersOnRoster(row))
                    => m.agenda_items[i].item_type = "voted"

====
